---- MODULE Spec2Model ----
(***************************************************************************)
(* Authorization, cascade deletion and ownership transfer of the           *)
(* kernelworx backend (src/src/utils/auth.py,                               *)
(* src/src/handlers/admin_operations.py, account_operations.py and         *)
(* transfer_profile_ownership.py) over a document store with paginated     *)
(* query/scan and an identity provider.                                    *)
(*                                                                         *)
(* Every handler is a process; every document-store or identity-provider   *)
(* call is one atomic step of it, the local computation that follows the   *)
(* call is part of the same step.                                          *)
(***************************************************************************)
EXTENDS Integers, Sequences, FiniteSets, TLC

\* ------------------------------------------------------------------ bounds
MaxProfiles == 2
MaxCampaigns == 2
MaxOrders == 3
MaxCatalogs == 3
MaxFaults == 1
MaxTransfers == 2
\* Managed catalogs created in one behaviour.
MaxManaged == 1
\* Items one query/scan response holds before the store cuts the page
\* (DynamoDB: 1 MB of data) and hands back a LastEvaluatedKey.
PageLimit == 2

Accounts == {1, 2, 3}
Procs == {1, 2}

\* ----------------------------------------------------------------- strings
\* An identifier string is its bare id and the number of namespace prefixes
\* ("ACCOUNT#" or "PROFILE#", by context) written in front of it.  id 0 is
\* the empty string.
Str(n, i) == [pfx |-> n, id |-> i]
Raw(i) == Str(0, i)
Db(i) == Str(1, i)
Empty == Str(0, 0)
\* A string of whitespace only is id -1; str.strip() makes it the empty string.
Blank == Str(0, 0 - 1)
Strip(s) == IF s = Blank THEN Empty ELSE s
\* f"ACCOUNT#{s}" / f"PROFILE#{s}"
Prefixed(s) == [s EXCEPT !.pfx = s.pfx + 1]
\* s.startswith("ACCOUNT#") / s.startswith("PROFILE#")
StartsWithPrefix(s) == s.pfx >= 1

_normalize_profile_id(profile_id) ==
    IF StartsWithPrefix(profile_id) THEN profile_id ELSE Prefixed(profile_id)

_normalize_account_id(account_id) ==
    IF StartsWithPrefix(account_id) THEN account_id ELSE Prefixed(account_id)

\* str.upper() on the permission words the model uses
Upper(w) ==
    CASE w = "read" -> "READ"
      [] w = "write" -> "WRITE"
      [] w = "admin" -> "ADMIN"
      [] OTHER -> w

\* ------------------------------------------------------------------- state
VARIABLES
    profiles,      \* profiles table: items keyed (ownerAccountId, profileId)
    shares,        \* shares table: items keyed (profileId, targetAccountId)
    campaigns,     \* campaigns table: items keyed (profileId, campaignId)
    orders,        \* orders table: items keyed (campaignId, orderId)
    catalogs,      \* catalogs table: items keyed catalogId
    accounts,      \* accounts table: items keyed accountId
    users,         \* identity-provider users, by subject id
    proc,          \* the invocations in flight
    faults,        \* collaborator failures injected so far
    transfers,     \* ownership transfers invoked so far
    cascade        \* observation of the last completed cascade calls

vars == <<profiles, shares, campaigns, orders, catalogs, accounts, users,
          proc, faults, transfers, cascade>>

store == <<profiles, shares, campaigns, orders, catalogs, accounts, users>>

\* The store as one value, for before/after comparisons.
Snapshot ==
    [profiles |-> profiles, shares |-> shares, campaigns |-> campaigns,
     orders |-> orders, catalogs |-> catalogs, accounts |-> accounts,
     users |-> users]

NoItem == [ownerAccountId |-> Empty, profileId |-> Empty, sellerName |-> 0]
NoSnapshot ==
    [profiles |-> {}, shares |-> {}, campaigns |-> {}, orders |-> {},
     catalogs |-> {}, accounts |-> {}, users |-> {}]

\* No cascade call observed.
NoCascade == [acct |-> Empty, stage |-> 0, pre |-> NoSnapshot]

\* ------------------------------------------------------- document store
Min(a, b) == IF a <= b THEN a ELSE b

\* The items of a set of <<sort key, item>> pairs in ascending key order.
RECURSIVE SortPairs(_)
SortPairs(S) ==
    IF S = {} THEN <<>>
    ELSE LET m == CHOOSE x \in S : \A y \in S : x[1] <= y[1]
         IN  <<m[2]>> \o SortPairs(S \ {m})

\* One response page: the store returns the first PageLimit items and a
\* continuation token for the rest.
Page(s) == SubSeq(s, 1, Min(Len(s), PageLimit))

\* table.query(KeyConditionExpression="ownerAccountId = :owner"), first page
QueryProfilesByOwner(owner) ==
    Page(SortPairs({<<it.profileId.id, it>> :
                      it \in {x \in profiles : x.ownerAccountId = owner}}))

\* table.query(IndexName="profileId-index", profileId = :profileId)
ProfilesById(db_profile_id) == {x \in profiles : x.profileId = db_profile_id}

\* campaigns.query(KeyConditionExpression="profileId = :pid"), first page
QueryCampaigns(profile_id) ==
    Page(SortPairs({<<it.campaignId.id, it>> :
                      it \in {x \in campaigns : x.profileId = profile_id}}))

\* orders.query(KeyConditionExpression="campaignId = :cid"), first page
QueryOrders(campaign_id) ==
    Page(SortPairs({<<it.orderId.id, it>> :
                      it \in {x \in orders : x.campaignId = campaign_id}}))

\* The query answering also with the Shares granted to the profile's owner.
QueryShares_with_received(profile_id) ==
    LET owners == {x.ownerAccountId : x \in ProfilesById(profile_id)}
    IN  Page(SortPairs({<<it.targetAccountId.id, it>> :
                          it \in {x \in shares : \/ x.profileId = profile_id
                                                 \/ x.targetAccountId \in owners}}))
\* shares.query(KeyConditionExpression="profileId = :pid"), first page
QueryShares(profile_id) ==
    Page(SortPairs({<<it.targetAccountId.id, it>> :
                      it \in {x \in shares : x.profileId = profile_id}}))

\* shares.get_item(Key={profileId, targetAccountId}): the set holds the item
GetShare(db_profile_id, db_account_id) ==
    {x \in shares : x.profileId = db_profile_id /\ x.targetAccountId = db_account_id}

\* What a call returns (ok) or raises (err).
NoResult == [kind |-> "none", code |-> "", n |-> 0, item |-> NoItem]
Ok(code) == [kind |-> "ok", code |-> code, n |-> 0, item |-> NoItem]
OkCount(n) == [kind |-> "ok", code |-> "count", n |-> n, item |-> NoItem]
OkItem(it) == [kind |-> "ok", code |-> "item", n |-> 0, item |-> it]
Err(code) == [kind |-> "err", code |-> code, n |-> 0, item |-> NoItem]

\* -------------------------------------------------------------- auth.py
\* A permissions attribute is a list of entries or something that is no
\* list; an entry is a plain string, a {"S": value} wrapper whose value is
\* a string or is none (a number, null), or neither.
PStr(w) == [t |-> "str", v |-> w]
PDict(w) == [t |-> "dict", v |-> w]
PDictOther == [t |-> "dict_other", v |-> "0"]
PNum == [t |-> "other", v |-> "0"]
PList(s) == [isList |-> TRUE, entries |-> s]
PNotList == [isList |-> FALSE, entries |-> <<>>]
\* The item has no permissions attribute.
PMissing == [isList |-> FALSE, entries |-> <<[t |-> "absent", v |-> ""]>>]
\* share.get("permissions", [])
PermissionsOf(share) ==
    IF share.permissions = PMissing THEN PList(<<>>) ELSE share.permissions

\* _normalize_permissions: the upper-cased words, or the AttributeError that
\* perm["S"].upper() raises for a {"S": value} entry whose value is no
\* string (raised |-> "" when nothing is raised)
_normalize_permissions(permissions) ==
    IF ~permissions.isList THEN [raised |-> "", words |-> {}]
    ELSE IF \E j \in DOMAIN permissions.entries :
               permissions.entries[j].t = "dict_other"
    THEN [raised |-> "AttributeError", words |-> {}]
    ELSE [raised |-> "",
          words |-> {Upper(permissions.entries[i].v) :
                       i \in {j \in DOMAIN permissions.entries :
                                permissions.entries[j].t \in {"str", "dict"}}}]

\* The owner lookup with the caller id used as the key as it came, without
\* the ACCOUNT# prefix the table's keys carry.
_is_profile_owner_unprefixed(profiles_table, caller_account_id, db_profile_id) ==
    \E it \in profiles_table :
        /\ it.ownerAccountId = caller_account_id
        /\ it.profileId = db_profile_id

\* _is_profile_owner: get_item under (f"ACCOUNT#{caller}", db_profile_id)
_is_profile_owner(profiles_table, caller_account_id, db_profile_id) ==
    \E it \in profiles_table :
        /\ it.ownerAccountId = Prefixed(caller_account_id)
        /\ it.profileId = db_profile_id

\* The existence check without its key condition: any item counts.
_profile_exists_unkeyed(profiles_table, db_profile_id) ==
    profiles_table # {}

_profile_exists(profiles_table, db_profile_id) ==
    \E it \in profiles_table : it.profileId = db_profile_id

\* The decision with each permission granted only by its own entry.
SharePermits_exact(share, required_permission) ==
    required_permission \in _normalize_permissions(PermissionsOf(share)).words

\* the decision of _check_share_permissions on the item it read
SharePermits(share, required_permission) ==
    LET permissions == _normalize_permissions(PermissionsOf(share)).words
    IN  \/ required_permission = "READ" /\ ("READ" \in permissions \/ "WRITE" \in permissions)
        \/ required_permission = "WRITE" /\ "WRITE" \in permissions

\* The share lookup keyed by the profile alone: any account's share counts.
\* What _check_share_permissions returns or raises on the items `found`:
\* False without an item, the error of _normalize_permissions, else the
\* decision.
ShareDecision(found, required_permission) ==
    IF found = {} THEN Ok("FALSE")
    ELSE IF \E share \in found : _normalize_permissions(PermissionsOf(share)).raised # ""
    THEN Err("AttributeError")
    ELSE IF \E share \in found : SharePermits(share, required_permission)
    THEN Ok("TRUE")
    ELSE Ok("FALSE")

_check_share_permissions_any_target(shares_table, db_profile_id, db_caller_id, required_permission) ==
    ShareDecision({share \in shares_table : share.profileId = db_profile_id},
                  required_permission)

\* _check_share_permissions: shares.get_item under (db_profile_id,
\* db_caller_id), then the decision on the item
_check_share_permissions(shares_table, db_profile_id, db_caller_id, required_permission) ==
    ShareDecision({share \in shares_table :
                     /\ share.profileId = db_profile_id
                     /\ share.targetAccountId = db_caller_id},
                  required_permission)

\* cognito:groups claim: a list of group names or a single string
GList(s) == [isStr |-> FALSE, names |-> s]
GStr(w) == [isStr |-> TRUE, names |-> <<w>>]
\* The claim present with a value that is neither: JSON null.
GNull == [isStr |-> FALSE, names |-> <<>>, null |-> TRUE]
\* Python's `x in s` for a string s on the group names the model uses:
\* "ADMIN" is a substring of "ADMIN" and of "ADMINS".
SubstringOf(w) == IF w = "ADMINS" THEN {"ADMIN", "ADMINS"} ELSE {w}

\* The claim looked into as it came: a string is searched for the substring.
is_admin_unwrapped(groups) ==
    \E i \in DOMAIN groups.names :
        "ADMIN" \in (IF groups.isStr THEN SubstringOf(groups.names[i]) ELSE {groups.names[i]})

\* is_admin: a string is wrapped into a one-element list, then
\* `"ADMIN" in groups`; for null the test raises TypeError, which
\* `except Exception` turns into False (no names, no member).
is_admin(groups) == \E i \in DOMAIN groups.names : groups.names[i] = "ADMIN"

\* ------------------------------------------------------------ invocations

\* The arguments a handler keeps beside the identifiers: a code (0 for
\* none), a flag, the names of the fields given, a name and a storage key.
NoInput == [code |-> 0, flag |-> FALSE, fields |-> {}, name |-> "", key |-> 0]

IdleProc ==
    [op |-> "idle", pc |-> "idle", caller |-> Empty, groups |-> GList(<<>>),
     arg |-> Empty, acct |-> Empty, pid |-> Empty, newOwner |-> Empty, perm |-> "",
     requested |-> "", pool |-> TRUE,
     profs |-> <<>>, camps |-> <<>>, items |-> <<>>, count |-> 0,
     profile |-> NoItem, startKey |-> 0, chain |-> FALSE, fn |-> "",
     result |-> NoResult, pre |-> NoSnapshot, log |-> <<>>, failed |-> FALSE,
     inp |-> NoInput]

Idle(p) == proc[p].pc = "idle"
Done(p) == proc[p].pc = "done"

\* The handler returns `r` (a value or a raised error).
Finish(p, r) == proc' = [proc EXCEPT ![p].pc = "done", ![p].result = r]

\* A collaborator call of the handler raised; the handler ends with `r`.
Raise(p, r) ==
    proc' = [proc EXCEPT ![p].pc = "done", ![p].result = r, ![p].failed = TRUE]

\* The response has been delivered; the invocation's slot is free again.
Return(p) ==
    /\ Done(p)
    /\ proc' = [proc EXCEPT ![p] = IdleProc]
    /\ UNCHANGED <<store, faults, transfers, cascade>>

\* ----------------------------------------------------------- initial store
OtherPid == MaxProfiles + 1
OtherCatalog == MaxCatalogs + 1
CampId(p, j) == (p - 1) * MaxCampaigns + j

ProfileItem(a, i) ==
    [ownerAccountId |-> Db(a), profileId |-> Db(i), sellerName |-> 10 + i]
ShareItem(i, a, perms) ==
    [profileId |-> Db(i), targetAccountId |-> Db(a), permissions |-> perms]
\* sharedCampaignCode 0: the item has no such attribute
CampaignItem(i, c) ==
    [profileId |-> Db(i), campaignId |-> Db(c), sharedCampaignCode |-> 0]
OrderItem(c, o) == [campaignId |-> Db(c), orderId |-> Db(o)]
CatalogItem(c, a, flag) ==
    [catalogId |-> Db(c), ownerAccountId |-> Db(a), isDeleted |-> flag,
     catalogName |-> 100 + c, catalogType |-> "USER_CREATED"]
\* A payment method of preferences.paymentMethods; qrCodeUrl 0: none
Method(name, key) == [name |-> name, qrCodeUrl |-> key]
\* isAdmin "absent": the item has no such attribute.  Account 1 has the
\* payment method Venmo, with no QR code yet.
AccountItem(a) ==
    [accountId |-> Db(a), isAdmin |-> IF a = 3 THEN "true" ELSE "false",
     paymentMethods |-> IF a = 1 THEN <<Method("Venmo", 0)>> ELSE <<>>]

\* isDeleted of account 1's catalogs: absent, false, true, absent, ...
FlagOf(c) == IF c % 3 = 1 THEN "absent" ELSE IF c % 3 = 2 THEN "false" ELSE "true"

ReadOnly == PList(<<PStr("READ")>>)
WriteOnly == PList(<<PStr("WRITE")>>)
ReadWrite == PList(<<PStr("READ"), PStr("WRITE")>>)

\* Account 1 owns n profiles, each with m campaigns, each with k orders, and
\* nc catalogs; account 2 owns one profile with one campaign with one order
\* and one catalog; account 3 owns nothing.  sh are the Share records.
InitStore(n, m, k, nc, sh) ==
    /\ profiles = {ProfileItem(1, i) : i \in 1..n} \cup {ProfileItem(2, OtherPid)}
    /\ shares = sh
    /\ campaigns = {CampaignItem(i, CampId(i, j)) : i \in 1..n, j \in 1..m}
                     \cup {CampaignItem(OtherPid, CampId(OtherPid, 1))}
    /\ orders = {OrderItem(CampId(i, j), o) : i \in 1..n, j \in 1..m, o \in 1..k}
                  \cup {OrderItem(CampId(OtherPid, 1), 1)}
    /\ catalogs = {CatalogItem(c, 1, FlagOf(c)) : c \in 1..nc}
                    \cup {CatalogItem(OtherCatalog, 2, "false")}
    /\ accounts = {AccountItem(a) : a \in Accounts}
    /\ users = Accounts
    /\ proc = [p \in Procs |-> IdleProc]
    /\ faults = 0
    /\ transfers = 0
    /\ cascade = NoCascade

\* ------------------------------------------------- check_profile_access
\* check_profile_access as a function of the two tables it reads and of its
\* arguments: what it returns, or the NOT_FOUND it raises, or the error the
\* share lookup raises
check_profile_access(profiles_table, shares_table, caller_account_id, profile_id, required_permission) ==
    LET db_profile_id == _normalize_profile_id(profile_id)
    IN  IF _is_profile_owner(profiles_table, caller_account_id, db_profile_id)
        THEN Ok("TRUE")
        ELSE IF ~_profile_exists(profiles_table, db_profile_id)
        THEN Err("NOT_FOUND")
        ELSE _check_share_permissions(shares_table, db_profile_id,
                                      _normalize_account_id(caller_account_id),
                                      Upper(required_permission))

Permissions == {"READ", "WRITE"}
\* The required_permission arguments the callers pass: the handlers write
\* the word in either case.
RequestedPermissions == {"READ", "WRITE", "read", "write"}
AccessOps == {"check_profile_access", "require_profile_access"}

\* check_profile_access(caller_account_id, profile_id, required_permission),
\* called by a handler or through require_profile_access;
\* required_permission = required_permission.upper()
Call_check_profile_access(p) ==
    /\ Idle(p)
    /\ \E op \in AccessOps,
          caller \in {Raw(a) : a \in Accounts},
          pid \in {Str(f, i) : f \in {0, 1}, i \in 1..OtherPid},
          perm \in RequestedPermissions :
         proc' = [proc EXCEPT ![p] =
                    [IdleProc EXCEPT !.op = op,
                                     !.pc = "is_profile_owner",
                                     !.caller = caller,
                                     !.pid = _normalize_profile_id(pid),
                                     !.requested = perm,
                                     !.perm = Upper(perm),
                                     !.pre = Snapshot]]
    /\ UNCHANGED <<store, faults, transfers, cascade>>

\* check_profile_access called with the caller's account id in its stored
\* form, "ACCOUNT#<sub>"
Call_check_profile_access_prefixed(p) ==
    /\ Idle(p)
    /\ \E caller \in {Db(a) : a \in Accounts},
          pid \in {Str(f, i) : f \in {0, 1}, i \in 1..OtherPid},
          perm \in Permissions :
         proc' = [proc EXCEPT ![p] =
                    [IdleProc EXCEPT !.op = "check_profile_access",
                                     !.pc = "is_profile_owner",
                                     !.caller = caller,
                                     !.pid = _normalize_profile_id(pid),
                                     !.requested = perm,
                                     !.perm = Upper(perm),
                                     !.pre = Snapshot]]
    /\ UNCHANGED <<store, faults, transfers, cascade>>

\* The guard that lets everything through.
require_profile_access_lenient(answer) ==
    IF answer.kind = "err" THEN answer ELSE Ok("NONE")

\* require_profile_access on the answer of check_profile_access: returns
\* None on True, raises AppError(FORBIDDEN) on False; an error raised by the
\* check passes through.
require_profile_access(answer) ==
    IF answer.kind = "err" THEN answer
    ELSE IF answer = Ok("TRUE") THEN Ok("NONE")
    ELSE Err("FORBIDDEN")

\* check_profile_access returns or raises `r`: to the handler, or to
\* require_profile_access, which decides on it.  log keeps what the check
\* answered.
\* create_campaign (campaign_operations.py 104-110) goes on to _get_profile
\* on True, raises PermissionError on False and lets an error through.
Answer(p, r) ==
    IF proc[p].op = "require_profile_access"
    THEN proc' = [proc EXCEPT ![p].pc = "done", ![p].log = <<r.code>>,
                              ![p].result = require_profile_access(r)]
    ELSE IF proc[p].op = "create_campaign"
    THEN IF r = Ok("TRUE")
         THEN proc' = [proc EXCEPT ![p].pc = "get_profile", ![p].log = <<r.code>>]
         ELSE proc' = [proc EXCEPT ![p].pc = "done", ![p].log = <<r.code>>,
                                   ![p].result = IF r.kind = "err" THEN r
                                                 ELSE Err("PermissionError")]
    ELSE Finish(p, r)

\* auth.py 122-124: the owner lookup; the owner is granted at once
Step_is_profile_owner(p) ==
    /\ proc[p].pc = "is_profile_owner"
    /\ IF _is_profile_owner(profiles, proc[p].caller, proc[p].pid)
       THEN Answer(p, Ok("TRUE"))
       ELSE proc' = [proc EXCEPT ![p].pc = "profile_exists"]
    /\ UNCHANGED <<store, faults, transfers, cascade>>

\* auth.py 126-128: the existence check through the profileId index
Step_profile_exists(p) ==
    /\ proc[p].pc = "profile_exists"
    /\ IF ~_profile_exists(profiles, proc[p].pid)
       THEN Answer(p, Err("NOT_FOUND"))
       ELSE proc' = [proc EXCEPT ![p].pc = "check_share_permissions"]
    /\ UNCHANGED <<store, faults, transfers, cascade>>

\* auth.py 130-132: the share lookup decides, or raises
Step_check_share_permissions(p) ==
    /\ proc[p].pc = "check_share_permissions"
    /\ Answer(p, _check_share_permissions(shares, proc[p].pid,
                                          _normalize_account_id(proc[p].caller),
                                          proc[p].perm))
    /\ UNCHANGED <<store, faults, transfers, cascade>>

\* ------------------------------------------- transfer_profile_ownership.py
\* utils.ids.ensure_profile_id / ensure_account_id: the id with its namespace
\* prefix, the empty string staying empty (`... or ""`)
ensure_profile_id(profile_id) ==
    IF profile_id = Empty THEN Empty ELSE _normalize_profile_id(profile_id)
ensure_account_id(account_id) ==
    IF account_id = Empty THEN Empty ELSE _normalize_account_id(account_id)

GroupClaims == {GList(<<>>), GList(<<"ADMIN">>)}

\* lambda_handler(event, context) of transfer_profile_ownership.py
Call_transfer_profile_ownership(p) ==
    /\ Idle(p)
    /\ transfers < MaxTransfers
    /\ transfers' = transfers + 1
    /\ \E caller \in {Raw(a) : a \in Accounts}, groups \in GroupClaims,
          pid \in {Raw(1), Raw(OtherPid)},
          newOwner \in {Raw(a) : a \in Accounts} :
         proc' = [proc EXCEPT ![p] =
                    [IdleProc EXCEPT !.op = "transfer_profile_ownership",
                                     !.pc = "get_and_verify_profile",
                                     !.caller = ensure_account_id(caller),
                                     !.groups = groups,
                                     !.pid = ensure_profile_id(pid),
                                     !.newOwner = ensure_account_id(newOwner),
                                     !.pre = Snapshot]]
    /\ cascade' = NoCascade
    /\ UNCHANGED <<store, faults>>

\* The profile check without the admin bypass of the share precondition:
\* every caller that passes goes on to _verify_new_owner_has_share.
Step_get_and_verify_profile_no_bypass(p) ==
    /\ proc[p].pc = "get_and_verify_profile"
    /\ IF ProfilesById(proc[p].pid) = {}
       THEN Finish(p, Err("ValueError: Profile not found"))
       ELSE \E profile \in ProfilesById(proc[p].pid) :
              IF profile.ownerAccountId # proc[p].caller /\ ~is_admin(proc[p].groups)
              THEN Finish(p, Err("PermissionError"))
              ELSE proc' = [proc EXCEPT ![p].profile = profile,
                                        ![p].pc = "verify_new_owner_has_share"]
    /\ UNCHANGED <<store, faults, transfers, cascade>>

\* _get_and_verify_profile: Items[0] of the index query, then the owner or
\* admin test
Step_get_and_verify_profile(p) ==
    /\ proc[p].pc = "get_and_verify_profile"
    /\ IF ProfilesById(proc[p].pid) = {}
       THEN Finish(p, Err("ValueError: Profile not found"))
       ELSE \E profile \in ProfilesById(proc[p].pid) :
              LET caller_is_owner == profile.ownerAccountId = proc[p].caller
                  caller_is_admin == is_admin(proc[p].groups)
              IN  IF ~caller_is_owner /\ ~caller_is_admin
                  THEN Finish(p, Err("PermissionError"))
                  ELSE proc' = [proc EXCEPT
                                  ![p].profile = profile,
                                  ![p].pc = IF caller_is_admin
                                            THEN "transfer_delete_item"
                                            ELSE "verify_new_owner_has_share"]
    /\ UNCHANGED <<store, faults, transfers, cascade>>

\* The share precondition left out: the transfer goes on whatever the
\* shares table holds.
Step_verify_new_owner_has_share_skipped(p) ==
    /\ proc[p].pc = "verify_new_owner_has_share"
    /\ proc' = [proc EXCEPT ![p].pc = "transfer_delete_item"]
    /\ UNCHANGED <<store, faults, transfers, cascade>>

\* _verify_new_owner_has_share, reached by a caller without the admin claim
Step_verify_new_owner_has_share(p) ==
    /\ proc[p].pc = "verify_new_owner_has_share"
    /\ IF GetShare(proc[p].pid, proc[p].newOwner) = {}
       THEN Finish(p, Err("ValueError: New owner must have existing access"))
       ELSE proc' = [proc EXCEPT ![p].pc = "transfer_delete_item"]
    /\ UNCHANGED <<store, faults, transfers, cascade>>

\* _transfer_ownership, first half: delete_item under the old key
Step_transfer_delete_item(p) ==
    /\ proc[p].pc = "transfer_delete_item"
    /\ profiles' = {x \in profiles :
                      ~(/\ x.ownerAccountId = proc[p].profile.ownerAccountId
                        /\ x.profileId = proc[p].pid)}
    /\ proc' = [proc EXCEPT ![p].pc = "transfer_put_item"]
    /\ UNCHANGED <<shares, campaigns, orders, catalogs, accounts, users, faults, transfers, cascade>>

\* The record put back as it was read, its owner field not replaced.
Step_transfer_put_item_unmodified(p) ==
    /\ proc[p].pc = "transfer_put_item"
    /\ profiles' = profiles \cup {proc[p].profile}
    /\ proc' = [proc EXCEPT ![p].pc = "delete_share_if_exists"]
    /\ UNCHANGED <<shares, campaigns, orders, catalogs, accounts, users, faults, transfers, cascade>>

\* _transfer_ownership, second half: the record with its owner field
\* replaced is put under the new key
Step_transfer_put_item(p) ==
    /\ proc[p].pc = "transfer_put_item"
    /\ LET item == [proc[p].profile EXCEPT !.ownerAccountId = proc[p].newOwner]
       IN  /\ profiles' = {x \in profiles :
                             ~(/\ x.ownerAccountId = item.ownerAccountId
                               /\ x.profileId = item.profileId)} \cup {item}
           /\ proc' = [proc EXCEPT ![p].profile = item,
                                   ![p].pc = "delete_share_if_exists"]
    /\ UNCHANGED <<shares, campaigns, orders, catalogs, accounts, users, faults, transfers, cascade>>

\* _delete_share_if_exists, then `return profile`
Step_delete_share_if_exists(p) ==
    /\ proc[p].pc = "delete_share_if_exists"
    /\ shares' = shares \ GetShare(proc[p].pid, proc[p].newOwner)
    /\ Finish(p, OkItem(proc[p].profile))
    /\ UNCHANGED <<profiles, campaigns, orders, catalogs, accounts, users, faults, transfers, cascade>>

\* The handler ends at the store call `at` that raised, with `r`.
RaiseAt(p, at, r) ==
    proc' = [proc EXCEPT ![p].pc = "done", ![p].result = r, ![p].failed = TRUE,
                         ![p].log = <<at>>]

\* A failed insert compensated: the item that was deleted is put back
\* under its old key before the exception leaves the handler.
Fail_transfer_restoring(p) ==
    /\ proc[p].op = "transfer_profile_ownership"
    /\ proc[p].pc \in {"get_and_verify_profile", "verify_new_owner_has_share",
                       "transfer_delete_item", "transfer_put_item",
                       "delete_share_if_exists"}
    /\ faults < MaxFaults
    /\ faults' = faults + 1
    /\ IF proc[p].pc = "delete_share_if_exists"
       THEN RaiseAt(p, proc[p].pc, OkItem(proc[p].profile))
       ELSE RaiseAt(p, proc[p].pc, Err("ClientError"))
    /\ profiles' = IF proc[p].pc = "transfer_put_item"
                   THEN profiles \cup {proc[p].profile} ELSE profiles
    /\ UNCHANGED <<shares, campaigns, orders, catalogs, accounts, users, transfers, cascade>>

\* A store call of the transfer raises.  Only _delete_share_if_exists
\* catches (`except Exception: pass`); elsewhere the collaborator's
\* exception leaves the handler as it is.  log keeps the call that raised.
Fail_transfer(p) ==
    /\ proc[p].op = "transfer_profile_ownership"
    /\ proc[p].pc \in {"get_and_verify_profile", "verify_new_owner_has_share",
                       "transfer_delete_item", "transfer_put_item",
                       "delete_share_if_exists"}
    /\ faults < MaxFaults
    /\ faults' = faults + 1
    /\ IF proc[p].pc = "delete_share_if_exists"
       THEN RaiseAt(p, proc[p].pc, OkItem(proc[p].profile))
       ELSE RaiseAt(p, proc[p].pc, Err("ClientError"))
    /\ UNCHANGED <<store, transfers, cascade>>

\* ------------------------------------------------- admin_operations.py
CascadeFns == <<"admin_delete_user_orders", "admin_delete_user_campaigns",
                "admin_delete_user_shares", "admin_delete_user_profiles",
                "admin_delete_user_catalogs">>
FnIndex(fn) == CHOOSE i \in DOMAIN CascadeFns : CascadeFns[i] = fn

\* The first store call of a cascade function: the owner query of the
\* profiles table, or the catalogs scan.
FirstPc(fn) == IF fn = "admin_delete_user_catalogs" THEN "scan_catalogs" ELSE "query_profiles"

\* The store call the function's loops reach next with the locals of u, or
\* "end" when every loop is exhausted.
PendingPc(u) ==
    CASE u.fn = "admin_delete_user_orders" ->
           IF u.items # <<>> THEN "delete_order"
           ELSE IF u.camps # <<>> THEN "query_orders"
           ELSE IF u.profs # <<>> THEN "query_campaigns" ELSE "end"
      [] u.fn = "admin_delete_user_campaigns" ->
           IF u.items # <<>> THEN "delete_campaign"
           ELSE IF u.profs # <<>> THEN "query_campaigns" ELSE "end"
      [] u.fn = "admin_delete_user_shares" ->
           IF u.items # <<>> THEN "delete_share"
           ELSE IF u.profs # <<>> THEN "query_shares" ELSE "end"
      [] u.fn = "admin_delete_user_profiles" ->
           IF u.items # <<>> THEN "delete_profile" ELSE "end"
      [] OTHER ->
           IF u.items # <<>> THEN "soft_delete_catalog"
           ELSE IF u.startKey # 0 THEN "scan_catalogs" ELSE "end"

\* The invocation after a store call left it with the locals of u: at its
\* next store call, or returned.  Inside _delete_all_user_data (u.chain) the
\* end of one function is the start of the next, and of the Account delete
\* after the last.
After(u) ==
    LET pc == PendingPc(u)
    IN  IF pc # "end" THEN [u EXCEPT !.pc = pc]
        ELSE IF ~u.chain
             THEN [u EXCEPT !.pc = "done", !.result = OkCount(u.count)]
        ELSE IF u.fn = "admin_delete_user_catalogs"
             THEN [u EXCEPT !.pc = "accounts_delete_item", !.log = Append(@, u.fn)]
        ELSE [u EXCEPT !.fn = CascadeFns[FnIndex(u.fn) + 1],
                       !.pc = FirstPc(CascadeFns[FnIndex(u.fn) + 1]),
                       !.count = 0, !.profs = <<>>, !.camps = <<>>,
                       !.items = <<>>, !.startKey = 0, !.log = Append(@, u.fn)]

\* The observation of cascade calls that ran one after the other: a call of
\* the function at position stage + 1 for the same account extends it, the
\* first function starts one, anything else ends it.
Observe(u) ==
    IF u.chain \/ u.pc # "done" THEN cascade
    ELSE IF u.result.kind = "ok" /\ FnIndex(u.fn) = 1
         THEN [acct |-> u.acct, stage |-> 1, pre |-> u.pre]
    ELSE IF /\ u.result.kind = "ok"
            /\ u.acct = cascade.acct
            /\ FnIndex(u.fn) = cascade.stage + 1
         THEN [cascade EXCEPT !.stage = cascade.stage + 1]
    ELSE NoCascade

OthersIdle(p) == \A q \in Procs \ {p} : Idle(q)

\* The argument validated before the admin claim is looked at.
_validate_admin_and_get_account_id_args_first(groups, accountId) ==
    IF Strip(accountId) = Empty THEN Err("INVALID_INPUT")
    ELSE IF ~is_admin(groups) THEN Err("FORBIDDEN")
    ELSE NoResult

\* _validate_admin_and_get_account_id: the error it raises, or NoResult when
\* it returns str(arguments.get("accountId", "")).strip()
_validate_admin_and_get_account_id(groups, accountId) ==
    IF ~is_admin(groups) THEN Err("FORBIDDEN")
    ELSE IF Strip(accountId) = Empty THEN Err("INVALID_INPUT")
    ELSE NoResult

\* The accountId arguments tried: bare, prefixed, missing, blank.
AccountArgs == {Raw(1), Db(1), Empty, Blank}

\* _validate_admin_and_get_account_id, then the function's first store call
Call_admin_delete_user(p) ==
    /\ Idle(p)
    /\ \E fn \in {CascadeFns[i] : i \in DOMAIN CascadeFns},
          caller \in {Raw(3)}, groups \in GroupClaims,
          accountId \in AccountArgs :
         LET u == [IdleProc EXCEPT !.op = fn, !.fn = fn, !.caller = caller,
                                   !.groups = groups, !.arg = accountId,
                                   !.pre = Snapshot]
             raised == _validate_admin_and_get_account_id(groups, accountId)
             v == IF raised # NoResult
                  THEN [u EXCEPT !.pc = "done", !.result = raised]
                  ELSE [u EXCEPT !.acct = _normalize_account_id(Strip(accountId)),
                                 !.pc = FirstPc(fn)]
         IN  /\ proc' = [proc EXCEPT ![p] = v]
             /\ cascade' = IF v.pc = "done" \/ ~OthersIdle(p) THEN NoCascade ELSE cascade
    /\ UNCHANGED <<store, faults, transfers>>

\* profiles.query(ownerAccountId = :owner): _get_user_profiles and the
\* inline queries of the campaigns, shares and profiles functions
Step_query_profiles(p) ==
    /\ proc[p].pc = "query_profiles"
    /\ LET page == QueryProfilesByOwner(proc[p].acct)
           u == IF proc[p].fn = "admin_delete_user_profiles"
                THEN [proc[p] EXCEPT !.items = page]
                ELSE [proc[p] EXCEPT !.profs = [i \in DOMAIN page |-> page[i].profileId]]
       IN  /\ proc' = [proc EXCEPT ![p] = After(u)]
           /\ cascade' = Observe(After(u))
    /\ UNCHANGED <<store, faults, transfers>>

\* campaigns.query(profileId = :pid) for the next profile of the loop
Step_query_campaigns(p) ==
    /\ proc[p].pc = "query_campaigns"
    /\ LET page == QueryCampaigns(Head(proc[p].profs))
           u == IF proc[p].fn = "admin_delete_user_orders"
                THEN [proc[p] EXCEPT !.profs = Tail(@),
                                     !.camps = [i \in DOMAIN page |-> page[i].campaignId]]
                ELSE [proc[p] EXCEPT !.profs = Tail(@), !.items = page]
       IN  /\ proc' = [proc EXCEPT ![p] = After(u)]
           /\ cascade' = Observe(After(u))
    /\ UNCHANGED <<store, faults, transfers>>

\* _delete_orders_for_campaign: orders.query(campaignId = :cid)
Step_query_orders(p) ==
    /\ proc[p].pc = "query_orders"
    /\ LET page == QueryOrders(Head(proc[p].camps))
           u == [proc[p] EXCEPT !.camps = Tail(@), !.items = page]
       IN  /\ proc' = [proc EXCEPT ![p] = After(u)]
           /\ cascade' = Observe(After(u))
    /\ UNCHANGED <<store, faults, transfers>>

\* _delete_orders_for_campaign: orders.delete_item, deleted_count += 1
Step_delete_order(p) ==
    /\ proc[p].pc = "delete_order"
    /\ LET it == Head(proc[p].items)
           u == [proc[p] EXCEPT !.items = Tail(@), !.count = @ + 1]
       IN  /\ orders' = {x \in orders :
                           ~(x.campaignId = it.campaignId /\ x.orderId = it.orderId)}
           /\ proc' = [proc EXCEPT ![p] = After(u)]
           /\ cascade' = Observe(After(u))
    /\ UNCHANGED <<profiles, shares, campaigns, catalogs, accounts, users, faults, transfers>>

\* admin_delete_user_campaigns: campaigns.delete_item, deleted_count += 1
Step_delete_campaign(p) ==
    /\ proc[p].pc = "delete_campaign"
    /\ LET it == Head(proc[p].items)
           u == [proc[p] EXCEPT !.items = Tail(@), !.count = @ + 1]
       IN  /\ campaigns' = {x \in campaigns :
                              ~(x.profileId = it.profileId /\ x.campaignId = it.campaignId)}
           /\ proc' = [proc EXCEPT ![p] = After(u)]
           /\ cascade' = Observe(After(u))
    /\ UNCHANGED <<profiles, shares, orders, catalogs, accounts, users, faults, transfers>>

\* admin_delete_user_shares: shares.query(profileId = :pid)
Step_query_shares(p) ==
    /\ proc[p].pc = "query_shares"
    /\ LET page == QueryShares(Head(proc[p].profs))
           u == [proc[p] EXCEPT !.profs = Tail(@), !.items = page]
       IN  /\ proc' = [proc EXCEPT ![p] = After(u)]
           /\ cascade' = Observe(After(u))
    /\ UNCHANGED <<store, faults, transfers>>

\* admin_delete_user_shares: shares.delete_item, deleted_count += 1
Step_delete_share(p) ==
    /\ proc[p].pc = "delete_share"
    /\ LET it == Head(proc[p].items)
           u == [proc[p] EXCEPT !.items = Tail(@), !.count = @ + 1]
       IN  /\ shares' = shares \ GetShare(it.profileId, it.targetAccountId)
           /\ proc' = [proc EXCEPT ![p] = After(u)]
           /\ cascade' = Observe(After(u))
    /\ UNCHANGED <<profiles, campaigns, orders, catalogs, accounts, users, faults, transfers>>

\* admin_delete_user_profiles: profiles.delete_item under
\* (db_account_id, profile["profileId"]), deleted_count += 1
Step_delete_profile(p) ==
    /\ proc[p].pc = "delete_profile"
    /\ LET it == Head(proc[p].items)
           u == [proc[p] EXCEPT !.items = Tail(@), !.count = @ + 1]
       IN  /\ profiles' = {x \in profiles :
                             ~(x.ownerAccountId = proc[p].acct /\ x.profileId = it.profileId)}
           /\ proc' = [proc EXCEPT ![p] = After(u)]
           /\ cascade' = Observe(After(u))
    /\ UNCHANGED <<shares, campaigns, orders, catalogs, accounts, users, faults, transfers>>

\* The catalogs the scan evaluates after ExclusiveStartKey, in key order.
CatalogsAfter(startKey) ==
    SortPairs({<<x.catalogId.id, x>> : x \in {y \in catalogs : y.catalogId.id > startKey}})

\* FilterExpression of _scan_and_delete_catalogs
ScanFilter(x, db_account_id) ==
    x.ownerAccountId = db_account_id /\ x.isDeleted \in {"absent", "false"}

\* _scan_and_delete_catalogs: one catalogs.scan page.  The store evaluates
\* PageLimit items, returns those the filter keeps, and a LastEvaluatedKey
\* when items remain.
Step_scan_catalogs(p) ==
    /\ proc[p].pc = "scan_catalogs"
    /\ LET rest == CatalogsAfter(proc[p].startKey)
           evaluated == Page(rest)
           Keep(x) == ScanFilter(x, proc[p].acct)
           u == [proc[p] EXCEPT
                   !.items = SelectSeq(evaluated, Keep),
                   !.startKey = IF Len(rest) > Len(evaluated)
                                THEN evaluated[Len(evaluated)].catalogId.id
                                ELSE 0]
       IN  /\ proc' = [proc EXCEPT ![p] = After(u)]
           /\ cascade' = Observe(After(u))
    /\ UNCHANGED <<store, faults, transfers>>

\* The catalog removed instead of flagged.
Step_soft_delete_catalog_removed(p) ==
    /\ proc[p].pc = "soft_delete_catalog"
    /\ LET it == Head(proc[p].items)
           u == [proc[p] EXCEPT !.items = Tail(@), !.count = @ + 1]
       IN  /\ catalogs' = {x \in catalogs : x.catalogId # it.catalogId}
           /\ proc' = [proc EXCEPT ![p] = After(u)]
           /\ cascade' = Observe(After(u))
    /\ UNCHANGED <<profiles, shares, campaigns, orders, accounts, users, faults, transfers>>

\* _soft_delete_catalog: update_item SET isDeleted = :true (an upsert: a
\* key with no item gets an item of the key and the flag), deleted_count += 1
Step_soft_delete_catalog(p) ==
    /\ proc[p].pc = "soft_delete_catalog"
    /\ LET it == Head(proc[p].items)
           old == {x \in catalogs : x.catalogId = it.catalogId}
           new == IF old = {}
                  THEN {[catalogId |-> it.catalogId, ownerAccountId |-> Empty,
                         isDeleted |-> "true", catalogName |-> 0,
                         catalogType |-> "absent"]}
                  ELSE {[x EXCEPT !.isDeleted = "true"] : x \in old}
           u == [proc[p] EXCEPT !.items = Tail(@), !.count = @ + 1]
       IN  /\ catalogs' = (catalogs \ old) \cup new
           /\ proc' = [proc EXCEPT ![p] = After(u)]
           /\ cascade' = Observe(After(u))
    /\ UNCHANGED <<profiles, shares, campaigns, orders, accounts, users, faults, transfers>>

CascadePcs == {"query_profiles", "query_campaigns", "query_orders", "delete_order",
               "delete_campaign", "query_shares", "delete_share", "delete_profile",
               "scan_catalogs", "soft_delete_catalog"}

\* The failure swallowed where it is caught: the function is abandoned and
\* its caller goes on with the next one.
Fail_cascade_swallowed(p) ==
    /\ proc[p].pc \in CascadePcs
    /\ faults < MaxFaults
    /\ faults' = faults + 1
    /\ LET u == [proc[p] EXCEPT !.failed = TRUE, !.profs = <<>>, !.camps = <<>>,
                                !.items = <<>>, !.startKey = 0]
       IN  proc' = [proc EXCEPT ![p] = After(u)]
    /\ cascade' = NoCascade
    /\ UNCHANGED <<store, transfers>>

\* A store call of a cascade function raises: `except Exception` turns it
\* into AppError(INTERNAL_ERROR) and the function ends there; inside
\* delete_my_account its `except Exception` does the same.
Fail_cascade(p) ==
    /\ proc[p].pc \in CascadePcs
    /\ faults < MaxFaults
    /\ faults' = faults + 1
    /\ Raise(p, Err("INTERNAL_ERROR"))
    /\ cascade' = NoCascade
    /\ UNCHANGED <<store, transfers>>

\* ------------------------------------------------ account_operations.py
\* The account taken from the accountId argument when the event has one.
DeletionTarget_from_argument(sub, accountId) ==
    IF accountId # Empty THEN accountId ELSE sub

\* account_id = event["identity"]["sub"]: the arguments are not read
DeletionTarget(sub, accountId) == sub

\* The handler started without a look at the setting.
RequireUserPool_unchecked(user_pool_id) == NoResult

\* user_pool_id = os.environ.get("USER_POOL_ID"); if not user_pool_id:
\* raise AppError(INTERNAL_ERROR): the error raised, or NoResult
RequireUserPool(user_pool_id) ==
    IF ~user_pool_id THEN Err("INTERNAL_ERROR") ELSE NoResult

\* delete_my_account: the USER_POOL_ID test, then _delete_all_user_data with
\* the pseudo event (identity.sub and arguments.accountId both the caller,
\* cognito:groups ["ADMIN"]), whose first call is admin_delete_user_orders.
\* arg is the accountId argument of the incoming event, pool whether
\* USER_POOL_ID is set.
Call_delete_my_account(p) ==
    /\ Idle(p)
    /\ \E sub \in {Raw(1), Raw(2)}, accountId \in {Empty, Raw(2)},
          user_pool_id \in BOOLEAN :
         LET account_id == DeletionTarget(sub, accountId)
             u == [IdleProc EXCEPT !.op = "delete_my_account", !.caller = sub,
                                   !.groups = GList(<<"ADMIN">>),
                                   !.arg = accountId,
                                   !.pool = user_pool_id,
                                   !.acct = _normalize_account_id(account_id),
                                   !.chain = TRUE,
                                   !.fn = CascadeFns[1],
                                   !.pre = Snapshot]
         IN  proc' = [proc EXCEPT ![p] =
                        IF RequireUserPool(user_pool_id) # NoResult
                        THEN [u EXCEPT !.pc = "done",
                                       !.result = RequireUserPool(user_pool_id)]
                        ELSE [u EXCEPT !.pc = FirstPc(CascadeFns[1])]]
    /\ cascade' = NoCascade
    /\ UNCHANGED <<store, faults, transfers>>

\* _delete_all_user_data: accounts.delete_item(f"ACCOUNT#{account_id}")
Step_accounts_delete_item(p) ==
    /\ proc[p].pc = "accounts_delete_item"
    /\ accounts' = {x \in accounts : x.accountId # Prefixed(proc[p].caller)}
    /\ proc' = [proc EXCEPT ![p].pc = "list_users",
                            ![p].log = Append(@, "accounts_delete_item")]
    /\ UNCHANGED <<profiles, shares, campaigns, orders, catalogs, users, faults, transfers, cascade>>

\* _delete_user_from_cognito: list_users(Filter sub = account_id); no user
\* is only a warning and the handler returns True
Step_list_users(p) ==
    /\ proc[p].pc = "list_users"
    /\ IF proc[p].caller.pfx = 0 /\ proc[p].caller.id \in users
       THEN proc' = [proc EXCEPT ![p].pc = "cognito_delete_user"]
       ELSE Finish(p, Ok("TRUE"))
    /\ UNCHANGED <<store, faults, transfers, cascade>>

\* _delete_user_from_cognito: admin_delete_user; when the user is gone by
\* now the provider raises UserNotFoundException, which is swallowed
Step_cognito_delete_user(p) ==
    /\ proc[p].pc = "cognito_delete_user"
    /\ users' = users \ {proc[p].caller.id}
    /\ Finish(p, Ok("TRUE"))
    /\ UNCHANGED <<profiles, shares, campaigns, orders, catalogs, accounts, faults, transfers, cascade>>

\* The Account delete or an identity-provider call raises an error other
\* than user-not-found: delete_my_account raises AppError(INTERNAL_ERROR).
Fail_delete_my_account(p) ==
    /\ proc[p].pc \in {"accounts_delete_item", "list_users", "cognito_delete_user"}
    /\ faults < MaxFaults
    /\ faults' = faults + 1
    /\ Raise(p, Err("INTERNAL_ERROR"))
    /\ UNCHANGED <<store, transfers, cascade>>

\* The identity-provider user of account a is removed by other means than
\* this program (an operator, the provider's console).
Env_remove_user(a) ==
    /\ a \in users
    /\ users' = users \ {a}
    /\ UNCHANGED <<profiles, shares, campaigns, orders, catalogs, accounts,
                   proc, faults, transfers, cascade>>

\* ------------------------------------------ admin_operations.py: one share
\* The cognito:groups claims the admin operations below are called with.
TokenGroups ==
    {GList(<<>>), GList(<<"ADMIN">>), GList(<<"USER", "ADMIN">>), GList(<<"ADMINS">>),
     GStr("ADMIN"), GStr("ADMINS"), GNull}

\* _normalize_profile_and_account_ids: each id gets its prefix unless it
\* starts with it
_normalize_profile_and_account_ids(profile_id, target_account_id) ==
    <<IF StartsWithPrefix(profile_id) THEN profile_id ELSE Prefixed(profile_id),
      IF StartsWithPrefix(target_account_id) THEN target_account_id
      ELSE Prefixed(target_account_id)>>

\* _validate_and_get_share_ids: the error it raises, or NoResult when it
\* returns the two stripped arguments
_validate_and_get_share_ids(groups, profileId, targetAccountId) ==
    IF ~is_admin(groups) THEN Err("FORBIDDEN")
    ELSE IF Strip(profileId) = Empty \/ Strip(targetAccountId) = Empty
         THEN Err("INVALID_INPUT")
    ELSE NoResult

\* admin_delete_share up to its store call; arg is the targetAccountId
\* argument, pid and acct are the key of the delete
Call_admin_delete_share(p) ==
    /\ Idle(p)
    /\ \E caller \in {Raw(3)}, groups \in TokenGroups,
          profileId \in {Raw(1), Db(1), Empty},
          targetAccountId \in {Raw(2), Db(2), Blank} :
         LET u == [IdleProc EXCEPT !.op = "admin_delete_share", !.caller = caller,
                                   !.groups = groups, !.arg = targetAccountId,
                                   !.pre = Snapshot]
             raised == _validate_and_get_share_ids(groups, profileId, targetAccountId)
             ids == _normalize_profile_and_account_ids(Strip(profileId),
                                                       Strip(targetAccountId))
         IN  proc' = [proc EXCEPT ![p] =
                        IF raised # NoResult
                        THEN [u EXCEPT !.pc = "done", !.result = raised]
                        ELSE [u EXCEPT !.pid = ids[1], !.acct = ids[2],
                                       !.pc = "shares_delete_item"]]
    /\ cascade' = NoCascade
    /\ UNCHANGED <<store, faults, transfers>>

\* The delete made conditional on the item: ConditionalCheckFailedException
\* for a Share that is not stored ends the call with INTERNAL_ERROR.
Step_admin_delete_share_must_exist(p) ==
    /\ proc[p].pc = "shares_delete_item"
    /\ shares' = shares \ GetShare(proc[p].pid, proc[p].acct)
    /\ IF GetShare(proc[p].pid, proc[p].acct) = {}
       THEN Raise(p, Err("INTERNAL_ERROR"))
       ELSE proc' = [proc EXCEPT ![p].pc = "done", ![p].result = Ok("TRUE"),
                                 ![p].log = <<"shares_delete_item">>]
    /\ UNCHANGED <<profiles, campaigns, orders, catalogs, accounts, users, faults, transfers, cascade>>

\* admin_delete_share: shares.delete_item(Key = (db_profile_id,
\* db_target_id)), unconditional; return True
Step_admin_delete_share(p) ==
    /\ proc[p].pc = "shares_delete_item"
    /\ shares' = shares \ GetShare(proc[p].pid, proc[p].acct)
    /\ proc' = [proc EXCEPT ![p].pc = "done", ![p].result = Ok("TRUE"),
                            ![p].log = <<"shares_delete_item">>]
    /\ UNCHANGED <<profiles, campaigns, orders, catalogs, accounts, users, faults, transfers, cascade>>

\* ------------------------------------- admin_operations.py: adminDeleteUser
_check_not_self_deletion_skipped(caller_id, account_id) == NoResult

\* _check_not_self_deletion: the error it raises, or NoResult
_check_not_self_deletion(caller_id, account_id) ==
    IF account_id = caller_id THEN Err("INVALID_INPUT") ELSE NoResult

\* _get_required_env("USER_POOL_ID"): the error it raises, or NoResult
_get_required_env(value) == IF ~value THEN Err("INTERNAL_ERROR") ELSE NoResult

\* admin_delete_user (the adminDeleteUser operation) up to its first
\* identity-provider call: _validate_admin_and_get_account_id,
\* _check_not_self_deletion, _get_required_env.  acct is the stripped
\* accountId argument, as it came.
Call_adminDeleteUser(p) ==
    /\ Idle(p)
    /\ \E caller \in {Raw(1), Raw(3)}, groups \in TokenGroups,
          accountId \in {Raw(1), Db(1), Raw(3), Blank},
          user_pool_id \in BOOLEAN :
         LET u == [IdleProc EXCEPT !.op = "admin_delete_user", !.caller = caller,
                                   !.groups = groups, !.arg = accountId,
                                   !.pool = user_pool_id,
                                   !.pre = Snapshot]
             account_id == Strip(accountId)
             invalid == _validate_admin_and_get_account_id(groups, accountId)
             self == _check_not_self_deletion(caller, account_id)
             env == _get_required_env(user_pool_id)
             raised == IF invalid # NoResult THEN invalid
                       ELSE IF self # NoResult THEN self
                       ELSE env
         IN  proc' = [proc EXCEPT ![p] =
                        IF raised # NoResult
                        THEN [u EXCEPT !.pc = "done", !.result = raised]
                        ELSE [u EXCEPT !.acct = account_id,
                                       !.pc = "find_cognito_user_by_sub"]]
    /\ cascade' = NoCascade
    /\ UNCHANGED <<store, faults, transfers>>

\* _find_cognito_user_by_sub: list_users(Filter = sub = "<account_id>");
\* no user: AppError(NOT_FOUND)
Step_find_cognito_user_by_sub(p) ==
    /\ proc[p].pc = "find_cognito_user_by_sub"
    /\ IF proc[p].acct.pfx = 0 /\ proc[p].acct.id \in users
       THEN proc' = [proc EXCEPT ![p].pc = "admin_cognito_delete_user",
                                 ![p].log = Append(@, "list_users")]
       ELSE proc' = [proc EXCEPT ![p].pc = "done", ![p].result = Err("NOT_FOUND"),
                                 ![p].log = Append(@, "no_user")]
    /\ UNCHANGED <<store, faults, transfers, cascade>>

\* _delete_user_from_cognito: cognito.admin_delete_user(Username); when the
\* user is gone by now the provider answers UserNotFoundException, a
\* ClientError like any other: AppError(INTERNAL_ERROR)
Step_admin_cognito_delete_user(p) ==
    /\ proc[p].pc = "admin_cognito_delete_user"
    /\ IF proc[p].acct.id \in users
       THEN /\ users' = users \ {proc[p].acct.id}
            /\ proc' = [proc EXCEPT ![p].pc = "delete_account_from_dynamodb",
                                    ![p].log = Append(@, "admin_delete_user")]
       ELSE /\ users' = users
            /\ Raise(p, Err("INTERNAL_ERROR"))
    /\ UNCHANGED <<profiles, shares, campaigns, orders, catalogs, accounts, faults, transfers, cascade>>

\* _delete_account_from_dynamodb: accounts.delete_item under
\* f"ACCOUNT#{account_id}"; return True
Step_delete_account_from_dynamodb(p) ==
    /\ proc[p].pc = "delete_account_from_dynamodb"
    /\ accounts' = {x \in accounts : x.accountId # Prefixed(proc[p].acct)}
    /\ proc' = [proc EXCEPT ![p].pc = "done", ![p].result = Ok("TRUE"),
                            ![p].log = Append(@, "accounts_delete_item")]
    /\ UNCHANGED <<profiles, shares, campaigns, orders, catalogs, users, faults, transfers, cascade>>

\* How a call of admin_delete_user fails: the service answers with an error
\* (botocore ClientError), or the call raises anything else (no connection,
\* a timeout).
FailureKinds == {"ClientError", "Exception"}

\* A provider failure on the delete taken for "the user is gone already":
\* the handler goes on to the Account record.
Fail_adminDeleteUser_tolerant(p) ==
    /\ proc[p].pc \in {"find_cognito_user_by_sub", "admin_cognito_delete_user",
                       "delete_account_from_dynamodb"}
    /\ faults < MaxFaults
    /\ faults' = faults + 1
    /\ \E kind \in FailureKinds :
         LET u == [proc[p] EXCEPT !.failed = TRUE, !.log = Append(@, kind)]
         IN  proc' = [proc EXCEPT ![p] =
                        IF proc[p].pc = "find_cognito_user_by_sub"
                        THEN [u EXCEPT !.pc = "done",
                                       !.result = IF kind = "ClientError"
                                                  THEN Err("NOT_FOUND")
                                                  ELSE Err("INTERNAL_ERROR")]
                        ELSE IF proc[p].pc = "admin_cognito_delete_user"
                        THEN [u EXCEPT !.pc = "delete_account_from_dynamodb"]
                        ELSE [u EXCEPT !.pc = "done",
                                       !.result = IF kind = "ClientError"
                                                  THEN Ok("TRUE")
                                                  ELSE Err("INTERNAL_ERROR")]]
    /\ UNCHANGED <<store, transfers, cascade>>

\* A call of admin_delete_user to the identity provider or the store fails.
\* list_users: a ClientError is caught and logged in
\* _find_cognito_user_by_sub, no user, AppError(NOT_FOUND); anything else
\* reaches `except Exception` of the handler, AppError(INTERNAL_ERROR).
\* admin_delete_user: AppError(INTERNAL_ERROR) either way.
\* accounts.delete_item: a ClientError is caught and logged and the handler
\* returns True; anything else ends in AppError(INTERNAL_ERROR), the
\* provider user being deleted already.
Fail_adminDeleteUser(p) ==
    /\ proc[p].pc \in {"find_cognito_user_by_sub", "admin_cognito_delete_user",
                       "delete_account_from_dynamodb"}
    /\ faults < MaxFaults
    /\ faults' = faults + 1
    /\ \E kind \in FailureKinds :
         LET u == [proc[p] EXCEPT !.failed = TRUE, !.log = Append(@, kind)]
         IN  proc' = [proc EXCEPT ![p] =
                        IF proc[p].pc = "find_cognito_user_by_sub"
                        THEN [u EXCEPT !.pc = "done",
                                       !.result = IF kind = "ClientError"
                                                  THEN Err("NOT_FOUND")
                                                  ELSE Err("INTERNAL_ERROR")]
                        ELSE IF proc[p].pc = "admin_cognito_delete_user"
                        THEN [u EXCEPT !.pc = "done", !.result = Err("INTERNAL_ERROR")]
                        ELSE [u EXCEPT !.pc = "done",
                                       !.result = IF kind = "ClientError"
                                                  THEN Ok("TRUE")
                                                  ELSE Err("INTERNAL_ERROR")]]
    /\ UNCHANGED <<store, transfers, cascade>>

\* shares.delete_item of admin_delete_share raises: `except Exception`
\* turns it into AppError(INTERNAL_ERROR).
Fail_admin_delete_share(p) ==
    /\ proc[p].pc = "shares_delete_item"
    /\ faults < MaxFaults
    /\ faults' = faults + 1
    /\ Raise(p, Err("INTERNAL_ERROR"))
    /\ UNCHANGED <<store, transfers, cascade>>


\* ------------------------------------------------ create_managed_catalog
\* A product of the input: its productName and its price, which may be
\* missing.
Product(name, given, value) ==
    [productName |-> name, price |-> [given |-> given, value |-> value]]

\* _validate_and_process_product: the error it raises, or NoResult
_validate_and_process_product(product) ==
    IF Strip(product.productName) = Empty THEN Err("INVALID_INPUT")
    ELSE IF ~product.price.given \/ product.price.value < 0 THEN Err("INVALID_INPUT")
    ELSE NoResult

\* _validate_catalog_input: the error it raises, or NoResult
_validate_catalog_input(catalogName, products) ==
    IF Strip(catalogName) = Empty THEN Err("INVALID_INPUT")
    ELSE IF products = <<>> THEN Err("INVALID_INPUT")
    ELSE NoResult

\* _validate_admin_and_get_caller_id: the error it raises, or NoResult
_validate_admin_and_get_caller_id(groups, sub) ==
    IF ~is_admin(groups) THEN Err("FORBIDDEN")
    ELSE IF sub = Empty THEN Err("UNAUTHORIZED")
    ELSE NoResult

\* _build_catalog_item: the item has no isDeleted attribute
_build_catalog_item(catalog_id, catalog_name, caller_id) ==
    [catalogId |-> catalog_id, ownerAccountId |-> Prefixed(caller_id),
     isDeleted |-> "absent", catalogName |-> catalog_name.id,
     catalogType |-> "ADMIN_MANAGED"]

\* f"CATALOG#{uuid.uuid4()}": an id no stored catalog has
FreshCatalogId ==
    Db(1 + CHOOSE m \in {x.catalogId.id : x \in catalogs} \cup {0} :
             \A y \in catalogs : y.catalogId.id <= m)

ManagedCatalogs == {x \in catalogs : x.catalogType = "ADMIN_MANAGED"}

CatalogNames == {Raw(7), Blank, Empty}
ProductLists ==
    {<<>>, <<Product(Raw(8), TRUE, 5)>>, <<Product(Raw(8), TRUE, 0), Product(Blank, TRUE, 5)>>,
     <<Product(Raw(8), FALSE, 0)>>, <<Product(Raw(8), TRUE, 0 - 1)>>}

\* create_managed_catalog up to _persist_catalog: the validations in the
\* order of the code, then the item is built.
Call_create_managed_catalog(p) ==
    /\ Idle(p)
    /\ Cardinality(ManagedCatalogs) < MaxManaged
    /\ \E sub \in {Raw(1), Raw(3), Empty}, groups \in GroupClaims,
          catalogName \in CatalogNames, products \in ProductLists :
         LET u == [IdleProc EXCEPT !.op = "create_managed_catalog", !.caller = sub,
                                   !.groups = groups, !.arg = catalogName,
                                   !.pre = Snapshot]
             bad == {i \in DOMAIN products :
                       _validate_and_process_product(products[i]) # NoResult}
             raised ==
                 IF _validate_admin_and_get_caller_id(groups, sub) # NoResult
                 THEN _validate_admin_and_get_caller_id(groups, sub)
                 ELSE IF _validate_catalog_input(catalogName, products) # NoResult
                 THEN _validate_catalog_input(catalogName, products)
                 ELSE IF bad # {}
                 THEN _validate_and_process_product(products[CHOOSE i \in bad : TRUE])
                 ELSE NoResult
         IN  proc' = [proc EXCEPT ![p] =
                        IF raised # NoResult
                        THEN [u EXCEPT !.pc = "done", !.result = raised]
                        ELSE [u EXCEPT !.pc = "catalogs_put_item",
                                       !.items = <<_build_catalog_item(
                                                     FreshCatalogId, Strip(catalogName),
                                                     sub)>>]]
    /\ cascade' = NoCascade
    /\ UNCHANGED <<store, faults, transfers>>

\* _persist_catalog: catalogs.put_item; the handler returns the item
Step_persist_catalog(p) ==
    /\ proc[p].pc = "catalogs_put_item"
    /\ LET it == Head(proc[p].items)
       IN  /\ catalogs' = {x \in catalogs : x.catalogId # it.catalogId} \cup {it}
           /\ proc' = [proc EXCEPT ![p].pc = "done", ![p].items = <<>>,
                                   ![p].result = Ok("catalog")]
    /\ UNCHANGED <<profiles, shares, campaigns, orders, accounts, users, faults,
                   transfers, cascade>>

\* put_item raises: _persist_catalog turns a ClientError into
\* INTERNAL_ERROR, the handler's `except Exception` anything else
Fail_create_managed_catalog(p) ==
    /\ proc[p].pc = "catalogs_put_item"
    /\ faults < MaxFaults
    /\ faults' = faults + 1
    /\ Raise(p, Err("INTERNAL_ERROR"))
    /\ UNCHANGED <<store, transfers, cascade>>

\* ------------------------------------------------- interruption and retry
CascadeOps == {CascadeFns[i] : i \in DOMAIN CascadeFns}

\* The invocation is stopped between two of its store calls (the function
\* times out or its container is lost); nothing it did is undone.
Interrupt(p) ==
    /\ proc[p].op \in CascadeOps \cup {"delete_my_account"}
    /\ proc[p].pc \notin {"idle", "done", "interrupted"}
    /\ proc' = [proc EXCEPT ![p].pc = "interrupted"]
    /\ UNCHANGED <<store, faults, transfers, cascade>>

\* The event of the invocation p, interrupted or still running, is
\* delivered again, to slot q: it passes the validations it passed before
\* and starts at the first store call.
Reinvoke(q, p) ==
    /\ Idle(q)
    /\ proc[p].op \in CascadeOps \cup {"delete_my_account"}
    /\ proc[p].pc \notin {"idle", "done"}
    /\ LET fn == IF proc[p].chain THEN CascadeFns[1] ELSE proc[p].op
       IN  proc' = [proc EXCEPT ![q] =
                      [IdleProc EXCEPT !.op = proc[p].op, !.fn = fn,
                                       !.caller = proc[p].caller,
                                       !.groups = proc[p].groups,
                                       !.arg = proc[p].arg, !.pool = proc[p].pool,
                                       !.acct = proc[p].acct, !.chain = proc[p].chain,
                                       !.pc = FirstPc(fn), !.pre = Snapshot]]
    /\ cascade' = NoCascade
    /\ UNCHANGED <<store, faults, transfers>>

\* The items of one response page, as a set.
PageSet(pairs) == {Page(SortPairs(pairs))[i] : i \in DOMAIN Page(SortPairs(pairs))}

\* The stores one invocation that runs alone, uninterrupted and without
\* failure leaves of the store st, for account a.
ProfilesPage(st, a) ==
    PageSet({<<x.profileId.id, x>> : x \in {y \in st.profiles : y.ownerAccountId = a}})

Run_admin_delete_user_orders(st, a) ==
    LET camps == UNION {PageSet({<<c.campaignId.id, c>> :
                                   c \in {y \in st.campaigns : y.profileId = pr.profileId}}) :
                          pr \in ProfilesPage(st, a)}
        dels == UNION {PageSet({<<o.orderId.id, o>> :
                                  o \in {y \in st.orders : y.campaignId = c.campaignId}}) :
                         c \in camps}
    IN  [st EXCEPT !.orders = @ \ dels]

Run_admin_delete_user_campaigns(st, a) ==
    LET dels == UNION {PageSet({<<c.campaignId.id, c>> :
                                  c \in {y \in st.campaigns : y.profileId = pr.profileId}}) :
                         pr \in ProfilesPage(st, a)}
    IN  [st EXCEPT !.campaigns = @ \ dels]

Run_admin_delete_user_shares(st, a) ==
    LET dels == UNION {PageSet({<<x.targetAccountId.id, x>> :
                                  x \in {y \in st.shares : y.profileId = pr.profileId}}) :
                         pr \in ProfilesPage(st, a)}
    IN  [st EXCEPT !.shares = @ \ dels]

Run_admin_delete_user_profiles(st, a) ==
    [st EXCEPT !.profiles = @ \ ProfilesPage(st, a)]

Run_admin_delete_user_catalogs(st, a) ==
    [st EXCEPT !.catalogs = {IF ScanFilter(x, a) THEN [x EXCEPT !.isDeleted = "true"]
                             ELSE x : x \in @}]

\* _delete_all_user_data(account_id): the five cascade functions for the
\* pseudo event's accountId, then accounts.delete_item(f"ACCOUNT#{account_id}")
Run_delete_all_user_data(st, account_id) ==
    LET a == _normalize_account_id(Strip(account_id))
        after == Run_admin_delete_user_catalogs(
                     Run_admin_delete_user_profiles(
                         Run_admin_delete_user_shares(
                             Run_admin_delete_user_campaigns(
                                 Run_admin_delete_user_orders(st, a), a), a), a), a)
    IN  [after EXCEPT !.accounts = {x \in @ : x.accountId # Prefixed(account_id)}]

\* delete_my_account: _delete_all_user_data(sub), then the identity
\* provider's user whose sub is the caller's
Run_delete_my_account(st, account_id) ==
    LET after == Run_delete_all_user_data(st, account_id)
    IN  [after EXCEPT !.users = IF account_id.pfx = 0 THEN @ \ {account_id.id} ELSE @]

\* The store an uninterrupted run of the invocation u leaves of the store st.
RunAlone(u, st) ==
    CASE u.op = "admin_delete_user_orders" -> Run_admin_delete_user_orders(st, u.acct)
      [] u.op = "admin_delete_user_campaigns" -> Run_admin_delete_user_campaigns(st, u.acct)
      [] u.op = "admin_delete_user_shares" -> Run_admin_delete_user_shares(st, u.acct)
      [] u.op = "admin_delete_user_profiles" -> Run_admin_delete_user_profiles(st, u.acct)
      [] u.op = "admin_delete_user_catalogs" -> Run_admin_delete_user_catalogs(st, u.acct)
      [] OTHER -> Run_delete_my_account(st, u.caller)

\* ------------------------------------------------ campaign_operations.py
\* Campaigns create_campaign has stored at one time.
MaxCreated == 1

UnitFields == {"unitType", "unitNumber", "city", "state"}
RequiredFields == {"campaignName", "campaignYear", "catalogId"}

\* The attributes create_campaign_prefill gives a prefill item beside its
\* keys: the season's name and year, no campaignName and no campaignYear.
PrefillFields == {"catalogId", "seasonName", "seasonYear"} \cup UnitFields

\* The campaign prefills table as create_campaign_prefill writes it: the
\* prefills of the accounts 2, 3 and 1 (codes 1, 2, 3); createdBy is the
\* creator's sub, isActive is True.
Prefills ==
    {[prefillCode |-> 1, createdBy |-> Raw(2), isActive |-> TRUE, fields |-> PrefillFields],
     [prefillCode |-> 2, createdBy |-> Raw(3), isActive |-> TRUE, fields |-> PrefillFields],
     [prefillCode |-> 3, createdBy |-> Raw(1), isActive |-> TRUE, fields |-> PrefillFields]}

\* The fields a create_campaign input carries beside profileId.
CampaignInputs ==
    {RequiredFields, RequiredFields \ {"campaignName"},
     RequiredFields \cup {"unitType"}, RequiredFields \cup UnitFields}

\* The inputs of create_campaign beside profileId: without a prefill
\* (prefillCode 0) the fields decide, with one the input's fields are not
\* read; prefillCode 4 names no stored prefill.
CampaignRequests ==
    {[NoInput EXCEPT !.fields = f] : f \in CampaignInputs}
      \cup {[NoInput EXCEPT !.code = c, !.flag = b] :
               c \in 1..4, b \in BOOLEAN}

\* Steps 4 and 5 of create_campaign, `prefill` being the prefill read (a
\* set with no or one item).  With a prefill the values are
\* prefill["campaignName"], ["campaignYear"], ["catalogId"], ["unitType"],
\* ["unitNumber"], ["city"], ["state"]: an item without one of them raises
\* KeyError.  Without a prefill the values are the input's.  A missing
\* required field, or a unitType without unitNumber, city and state, raises
\* ValueError.  The error raised, or NoResult.
_validate_campaign_values(fields, prefill) ==
    LET given == IF prefill # {} THEN UNION {f.fields : f \in prefill} ELSE fields
    IN  IF prefill # {} /\ ~((RequiredFields \cup UnitFields) \subseteq given)
        THEN Err("KeyError")
        ELSE IF ~(RequiredFields \subseteq given) THEN Err("ValueError")
        ELSE IF "unitType" \in given /\ ~(UnitFields \subseteq given)
        THEN Err("ValueError")
        ELSE NoResult

\* campaign_id = f"CAMPAIGN#{uuid.uuid4()}": an id no stored campaign has
FreshCampaignId ==
    Db(1 + CHOOSE m \in {x.campaignId.id : x \in campaigns} \cup {CampId(OtherPid, 1)} :
             /\ \A y \in campaigns : y.campaignId.id <= m
             /\ CampId(OtherPid, 1) <= m)

\* owner_account_id.replace("ACCOUNT#", ""): every prefix is taken away
WithoutPrefix(s) == [s EXCEPT !.pfx = 0]

\* create_campaign 226-236: the Share put into the transaction, as a set
\* with no or one item.  The permissions are written as the string set
\* {"READ"}, which _normalize_permissions reads like the list ["READ"].
_creator_share(profile_id, profile, prefills, share_with_creator) ==
    {[profileId |-> profile_id, targetAccountId |-> f.createdBy,
      permissions |-> ReadOnly] :
        f \in {g \in prefills :
                 /\ share_with_creator
                 /\ g.createdBy # Empty
                 /\ g.createdBy # WithoutPrefix(profile.ownerAccountId)}}

\* create_campaign, up to the first store call of check_profile_access; the
\* profile id is kept as it was given (arg) beside its normalised form
Call_create_campaign(p) ==
    /\ Idle(p)
    /\ Cardinality({x \in campaigns : x.campaignId.id > CampId(OtherPid, 1)}) < MaxCreated
    /\ \E sub \in {Raw(a) : a \in Accounts}, profileId \in {Db(1), Raw(1)},
          input \in CampaignRequests :
         proc' = [proc EXCEPT ![p] =
                    [IdleProc EXCEPT !.op = "create_campaign",
                                     !.pc = "is_profile_owner",
                                     !.caller = sub,
                                     !.arg = profileId,
                                     !.pid = _normalize_profile_id(profileId),
                                     !.requested = "WRITE",
                                     !.perm = Upper("WRITE"),
                                     !.inp = input]]
    /\ cascade' = NoCascade
    /\ UNCHANGED <<store, faults, transfers>>

\* What follows the lookups: the error of steps 4 and 5, or the transaction.
AfterLookups(p, u, prefill) ==
    IF _validate_campaign_values(proc[p].inp.fields, prefill) # NoResult
    THEN [u EXCEPT !.pc = "done",
                   !.result = _validate_campaign_values(proc[p].inp.fields, prefill)]
    ELSE [u EXCEPT !.pc = "transact_write_items"]

\* _get_profile: profiles.query on the profileId index with the id as it was
\* given, Limit 1; no item raises ValueError
Step_get_profile(p) ==
    /\ proc[p].pc = "get_profile"
    /\ LET items == {x \in profiles : x.profileId = proc[p].arg}
       IN  IF items = {}
           THEN Finish(p, Err("ValueError"))
           ELSE \E profile \in items :
                  LET u == [proc[p] EXCEPT !.profile = profile]
                  IN  proc' = [proc EXCEPT ![p] =
                                 IF proc[p].inp.code # 0
                                 THEN [u EXCEPT !.pc = "get_prefill"]
                                 ELSE AfterLookups(p, u, {})]
    /\ UNCHANGED <<store, faults, transfers, cascade>>

\* _get_prefill: prefills.get_item; no prefill, or one with isActive false,
\* raises ValueError; then the values are taken from the prefill (136-143)
Step_get_prefill(p) ==
    /\ proc[p].pc = "get_prefill"
    /\ LET found == {f \in Prefills : f.prefillCode = proc[p].inp.code}
       IN  IF found = {} \/ \E f \in found : ~f.isActive
           THEN Finish(p, Err("ValueError"))
           ELSE proc' = [proc EXCEPT ![p] = AfterLookups(p, proc[p], found)]
    /\ UNCHANGED <<store, faults, transfers, cascade>>

\* The Share of the transaction of invocation p.
ShareToPut(p) ==
    _creator_share(proc[p].arg, proc[p].profile,
                   {f \in Prefills : f.prefillCode = proc[p].inp.code},
                   proc[p].inp.flag)

\* dynamodb_client.transact_write_items: the Campaign put and, when there is
\* one, the Share put under attribute_not_exists(profileId).  A stored Share
\* with the same key cancels the whole transaction and the handler goes on
\* to the retry.
Step_transact_write_items(p) ==
    /\ proc[p].pc = "transact_write_items"
    /\ LET campaign_item == [profileId |-> proc[p].arg, campaignId |-> FreshCampaignId,
                             sharedCampaignCode |-> 0]
           share_item == ShareToPut(p)
       IN  IF \E sh \in share_item : GetShare(sh.profileId, sh.targetAccountId) # {}
           THEN /\ proc' = [proc EXCEPT ![p].pc = "transact_write_retry"]
                /\ UNCHANGED <<campaigns, shares>>
           ELSE /\ campaigns' = campaigns \cup {campaign_item}
                /\ shares' = shares \cup share_item
                /\ proc' = [proc EXCEPT ![p].pc = "done", ![p].count = Cardinality(share_item),
                                        ![p].result = Ok("campaign")]
    /\ UNCHANGED <<profiles, orders, catalogs, accounts, users, faults, transfers, cascade>>

\* create_campaign 276-284: on ConditionalCheckFailed the transaction is run
\* again with transact_items[:1], the Campaign put alone
Step_transact_write_retry(p) ==
    /\ proc[p].pc = "transact_write_retry"
    /\ campaigns' = campaigns \cup {[profileId |-> proc[p].arg,
                                     campaignId |-> FreshCampaignId,
                                     sharedCampaignCode |-> 0]}
    /\ Finish(p, Ok("campaign"))
    /\ UNCHANGED <<profiles, shares, orders, catalogs, accounts, users, faults,
                   transfers, cascade>>

\* A store call of create_campaign raises: _get_profile and _get_prefill
\* answer None, which raises ValueError; an error of a lookup of
\* check_profile_access or of the transaction is raised as it is.
Fail_create_campaign(p) ==
    /\ proc[p].op = "create_campaign"
    /\ proc[p].pc \in {"is_profile_owner", "profile_exists", "check_share_permissions",
                       "get_profile", "get_prefill", "transact_write_items",
                       "transact_write_retry"}
    /\ faults < MaxFaults
    /\ faults' = faults + 1
    /\ Raise(p, IF proc[p].pc \in {"get_profile", "get_prefill"}
                THEN Err("ValueError") ELSE Err("ClientError"))
    /\ UNCHANGED <<store, transfers, cascade>>

\* ---------------------------- admin_operations.py, sharedCampaignCode
CampaignArgs == {Raw(CampId(1, 1)), Db(CampId(1, 1)), Db(CampId(OtherPid, 1) + MaxCreated + 1),
                 Empty, Blank}

\* _validate_admin_and_get_campaign_id: the error raised, or NoResult
_validate_admin_and_get_campaign_id(groups, campaignId) ==
    IF ~is_admin(groups) THEN Err("FORBIDDEN")
    ELSE IF Strip(campaignId) = Empty THEN Err("INVALID_INPUT")
    ELSE NoResult

\* campaign_id if campaign_id.startswith("CAMPAIGN#") else f"CAMPAIGN#{campaign_id}"
_db_campaign_id(campaign_id) ==
    IF StartsWithPrefix(campaign_id) THEN campaign_id ELSE Prefixed(campaign_id)

\* admin_update_campaign_shared_code up to its first store call;
\* sharedCampaignCode 0 is null
Call_admin_update_campaign_shared_code(p) ==
    /\ Idle(p)
    /\ \E groups \in GroupClaims, campaignId \in CampaignArgs,
          sharedCampaignCode \in {0, 1} :
         LET u == [IdleProc EXCEPT !.op = "admin_update_campaign_shared_code",
                                   !.caller = Raw(3), !.groups = groups,
                                   !.arg = campaignId,
                                   !.inp = [NoInput EXCEPT !.code = sharedCampaignCode]]
             raised == _validate_admin_and_get_campaign_id(groups, campaignId)
         IN  proc' = [proc EXCEPT ![p] =
                        IF raised # NoResult
                        THEN [u EXCEPT !.pc = "done", !.result = raised]
                        ELSE [u EXCEPT !.pc = "campaigns_query_by_id",
                                       !.arg = _db_campaign_id(Strip(campaignId))]]
    /\ cascade' = NoCascade
    /\ UNCHANGED <<store, faults, transfers>>

\* _get_campaign_profile_id: campaigns.query on the campaignId index; no
\* item raises NOT_FOUND, else the profileId of the first item is kept
Step_get_campaign_profile_id(p) ==
    /\ proc[p].pc = "campaigns_query_by_id"
    /\ LET items == {x \in campaigns : x.campaignId = proc[p].arg}
       IN  IF items = {}
           THEN Finish(p, Err("NOT_FOUND"))
           ELSE \E it \in items :
                  proc' = [proc EXCEPT ![p].pc = "campaigns_update_item",
                                       ![p].pid = it.profileId]
    /\ UNCHANGED <<store, faults, transfers, cascade>>

\* _update_campaign_shared_code: campaigns.update_item with no condition
\* sets or removes sharedCampaignCode of the item with the key (profileId,
\* campaignId) and writes the item when the table has none with that key
Step_update_campaign_shared_code(p) ==
    /\ proc[p].pc = "campaigns_update_item"
    /\ LET stored(x) == x.profileId = proc[p].pid /\ x.campaignId = proc[p].arg
       IN  campaigns' =
             IF \E x \in campaigns : stored(x)
             THEN {IF stored(x) THEN [x EXCEPT !.sharedCampaignCode = proc[p].inp.code]
                   ELSE x : x \in campaigns}
             ELSE campaigns \cup {[profileId |-> proc[p].pid, campaignId |-> proc[p].arg,
                                   sharedCampaignCode |-> proc[p].inp.code]}
    /\ Finish(p, Ok("campaign"))
    /\ UNCHANGED <<profiles, shares, orders, catalogs, accounts, users, faults,
                   transfers, cascade>>

\* A store call of admin_update_campaign_shared_code raises: `except
\* Exception` turns it into INTERNAL_ERROR
Fail_admin_update_campaign_shared_code(p) ==
    /\ proc[p].pc \in {"campaigns_query_by_id", "campaigns_update_item"}
    /\ faults < MaxFaults
    /\ faults' = faults + 1
    /\ Raise(p, Err("INTERNAL_ERROR"))
    /\ UNCHANGED <<store, transfers, cascade>>

\* -------------------------------------------- payment_methods_handlers.py
\* paymentMethodName as it arrives; " " is a blank name.  An s3Key is 0
\* (empty) or 1.
MethodNames == {"Venmo", "Zelle", "", " "}
StripName(name) == IF name = " " THEN "" ELSE name

\* What the calls outside the store answer, drawn at the call: whether
\* is_reserved_name holds of the name and validate_qr_s3_key of the key and
\* the caller, whether EXPORTS_BUCKET is set, and what head_object finds.
Surroundings ==
    [reserved : BOOLEAN, owned : BOOLEAN, bucket : BOOLEAN,
     object : {"found", "404", "error"}]

\* _extract_and_validate_caller: the error raised, or NoResult
_extract_and_validate_caller(sub) ==
    IF sub = Empty THEN Err("UNAUTHORIZED") ELSE NoResult

\* _validate_qr_upload_inputs: the error raised, or NoResult
_validate_qr_upload_inputs(payment_method_name, s3_key, owned) ==
    IF payment_method_name = "" \/ s3_key = 0 THEN Err("INVALID_INPUT")
    ELSE IF ~owned THEN Err("FORBIDDEN")
    ELSE NoResult

\* _validate_s3_object_exists: 404 raises NOT_FOUND, another ClientError is
\* raised on and becomes INTERNAL_ERROR in the handler
_validate_s3_object_exists(object) ==
    IF object = "404" THEN Err("NOT_FOUND")
    ELSE IF object = "error" THEN Err("INTERNAL_ERROR")
    ELSE NoResult

\* The least number of a set of numbers that has one.
First(S) == CHOOSE i \in S : \A j \in S : i <= j

\* The first of the results that is an error, or NoResult.
FirstRaised(results) ==
    IF \E i \in DOMAIN results : results[i] # NoResult
    THEN results[First({i \in DOMAIN results : results[i] # NoResult})]
    ELSE NoResult

\* confirm_qr_upload up to its first store call
Call_confirm_qr_upload(p) ==
    /\ Idle(p)
    /\ \E sub \in {Raw(1), Raw(2), Empty}, paymentMethodName \in MethodNames,
          s3Key \in {0, 1}, env \in Surroundings :
         LET u == [IdleProc EXCEPT !.op = "confirm_qr_upload", !.caller = sub,
                                   !.inp = [NoInput EXCEPT
                                              !.name = StripName(paymentMethodName),
                                              !.key = s3Key]]
             raised == FirstRaised(<<
                 _extract_and_validate_caller(sub),
                 _validate_qr_upload_inputs(StripName(paymentMethodName), s3Key, env.owned),
                 IF env.bucket THEN NoResult ELSE Err("INTERNAL_ERROR"),
                 _validate_s3_object_exists(env.object)>>)
         IN  proc' = [proc EXCEPT ![p] =
                        IF raised # NoResult
                        THEN [u EXCEPT !.pc = "done", !.result = raised]
                        ELSE [u EXCEPT !.pc = "qr_get_item"]]
    /\ cascade' = NoCascade
    /\ UNCHANGED <<store, faults, transfers>>

\* The Account item of the caller, as a set with no or one item.
AccountOf(caller_id) == {x \in accounts : x.accountId = Prefixed(caller_id)}

Named(methods, name) == {i \in DOMAIN methods : methods[i].name = name}

\* _update_payment_method_qr_url 148-165: accounts.get_item; no item, or no
\* method of that name, raises NOT_FOUND; the first method of that name
\* gets the key and the list is kept for the write
Step_qr_get_item(p) ==
    /\ proc[p].pc = "qr_get_item"
    /\ IF AccountOf(proc[p].caller) = {}
       THEN Finish(p, Err("NOT_FOUND"))
       ELSE \E item \in AccountOf(proc[p].caller) :
              LET named == Named(item.paymentMethods, proc[p].inp.name)
              IN  IF named = {}
                  THEN Finish(p, Err("NOT_FOUND"))
                  ELSE proc' = [proc EXCEPT
                                  ![p].pc = "accounts_update_item",
                                  ![p].items = [item.paymentMethods EXCEPT
                                                  ![First(named)].qrCodeUrl = proc[p].inp.key]]
    /\ UNCHANGED <<store, faults, transfers, cascade>>

\* delete_qr_code up to its first store call
Call_delete_qr_code(p) ==
    /\ Idle(p)
    /\ \E sub \in {Raw(1), Raw(2), Empty}, paymentMethodName \in MethodNames,
          env \in {e \in Surroundings : e.owned /\ e.bucket /\ e.object = "found"} :
         LET u == [IdleProc EXCEPT !.op = "delete_qr_code", !.caller = sub,
                                   !.inp = [NoInput EXCEPT
                                              !.name = StripName(paymentMethodName)]]
             raised == FirstRaised(<<
                 _extract_and_validate_caller(sub),
                 IF StripName(paymentMethodName) = "" THEN Err("INVALID_INPUT")
                 ELSE NoResult,
                 IF env.reserved THEN Err("INVALID_INPUT") ELSE NoResult>>)
         IN  proc' = [proc EXCEPT ![p] =
                        IF raised # NoResult
                        THEN [u EXCEPT !.pc = "done", !.result = raised]
                        ELSE [u EXCEPT !.pc = "get_payment_methods"]]
    /\ cascade' = NoCascade
    /\ UNCHANGED <<store, faults, transfers>>

\* _verify_payment_method_exists: get_payment_methods reads the caller's
\* Account item; no method of that name raises NOT_FOUND.  The QR code's
\* object is then deleted from the bucket, whose errors are swallowed.
Step_verify_payment_method_exists(p) ==
    /\ proc[p].pc = "get_payment_methods"
    /\ IF \A item \in AccountOf(proc[p].caller) :
            Named(item.paymentMethods, proc[p].inp.name) = {}
       THEN Finish(p, Err("NOT_FOUND"))
       ELSE proc' = [proc EXCEPT ![p].pc = "clear_get_item"]
    /\ UNCHANGED <<store, faults, transfers, cascade>>

\* _clear_qr_url_in_payment_method 246-260: accounts.get_item; no item
\* raises NOT_FOUND; every method of that name loses its qrCodeUrl and the
\* list is kept for the write
Step_clear_get_item(p) ==
    /\ proc[p].pc = "clear_get_item"
    /\ IF AccountOf(proc[p].caller) = {}
       THEN Finish(p, Err("NOT_FOUND"))
       ELSE \E item \in AccountOf(proc[p].caller) :
              proc' = [proc EXCEPT
                         ![p].pc = "accounts_update_item",
                         ![p].items = [i \in DOMAIN item.paymentMethods |->
                                         IF item.paymentMethods[i].name = proc[p].inp.name
                                         THEN Method(proc[p].inp.name, 0)
                                         ELSE item.paymentMethods[i]]]
    /\ UNCHANGED <<store, faults, transfers, cascade>>

\* accounts.update_item(SET preferences = :prefs) with no condition (169-173
\* and 262-266): the preferences read before replace the stored ones, and
\* the item is written with accountId and preferences alone when the table
\* has none with that key
Step_accounts_update_item(p) ==
    /\ proc[p].pc = "accounts_update_item"
    /\ accounts' =
         IF AccountOf(proc[p].caller) # {}
         THEN {IF x.accountId = Prefixed(proc[p].caller)
               THEN [x EXCEPT !.paymentMethods = proc[p].items] ELSE x : x \in accounts}
         ELSE accounts \cup {[accountId |-> Prefixed(proc[p].caller),
                              isAdmin |-> "absent",
                              paymentMethods |-> proc[p].items]}
    /\ proc' = [proc EXCEPT ![p].pc = "done", ![p].items = <<>>,
                            ![p].result = IF proc[p].op = "confirm_qr_upload"
                                          THEN Ok("method") ELSE Ok("TRUE")]
    /\ UNCHANGED <<profiles, shares, campaigns, orders, catalogs, users, faults,
                   transfers, cascade>>

\* An accounts.get_item or accounts.update_item of one of the two handlers
\* raises: `except Exception` turns it into INTERNAL_ERROR.  The read inside
\* get_payment_methods is the helper's own call and has no failure here.
Fail_accounts_update(p) ==
    /\ proc[p].pc \in {"qr_get_item", "clear_get_item", "accounts_update_item"}
    /\ faults < MaxFaults
    /\ faults' = faults + 1
    /\ Raise(p, Err("INTERNAL_ERROR"))
    /\ UNCHANGED <<store, transfers, cascade>>

\* ----------------------------------------------------------- specifications
\* Invocations run one at a time: the specifications below drive invocation
\* slot 1 alone, SpecConcurrent interleaves two.

\* The permissions values a Share record is stored with.
PermissionValues ==
    {PList(<<>>), ReadOnly, WriteOnly, ReadWrite, PList(<<PStr("read")>>),
     PList(<<PDict("write")>>), PList(<<PDictOther>>), PList(<<PNum>>), PNotList,
     PMissing}

\* Access checks over stores that transfers (and their failures) reshape.
InitAccess ==
    \E n \in 1..MaxProfiles, perms \in PermissionValues, present \in BOOLEAN :
        InitStore(n, 0, 0, 0,
                  {ShareItem(1, 2, perms) : x \in {y \in {TRUE} : present}}
                    \cup {ShareItem(1, 3, WriteOnly), ShareItem(OtherPid, 1, ReadOnly)})

NextAccess ==
    \/ Call_check_profile_access(1)
    \/ Step_is_profile_owner(1)
    \/ Step_profile_exists(1)
    \/ Step_check_share_permissions(1)
    \/ Call_transfer_profile_ownership(1)
    \/ Step_get_and_verify_profile(1)
    \/ Step_verify_new_owner_has_share(1)
    \/ Step_transfer_delete_item(1)
    \/ Step_transfer_put_item(1)
    \/ Step_delete_share_if_exists(1)
    \/ Fail_transfer(1)
    \/ Return(1)

SpecAccess == InitAccess /\ [][NextAccess]_vars

\* Share records of the cascade's initial store: on account 1's profiles for
\* accounts 2 and 3, and on account 2's profile for account 1.
CascadeShares(n) ==
    {ShareItem(i, 2, ReadOnly) : i \in 1..n} \cup {ShareItem(i, 3, WriteOnly) : i \in 1..n}
      \cup {ShareItem(OtherPid, 1, WriteOnly)}

\* The cascade functions called one after the other by an admin.
InitCascade ==
    \E n \in 0..MaxProfiles, m \in 0..MaxCampaigns, k \in 0..MaxOrders,
       nc \in {0, MaxCatalogs} :
        /\ (n = 0 => m = 0) /\ (m = 0 => k = 0)
        /\ InitStore(n, m, k, nc, CascadeShares(n))

NextCascade ==
    \/ Call_admin_delete_user(1)
    \/ Step_query_profiles(1)
    \/ Step_query_campaigns(1)
    \/ Step_query_orders(1)
    \/ Step_delete_order(1)
    \/ Step_delete_campaign(1)
    \/ Step_query_shares(1)
    \/ Step_delete_share(1)
    \/ Step_delete_profile(1)
    \/ Step_scan_catalogs(1)
    \/ Step_soft_delete_catalog(1)
    \/ Return(1)

SpecCascade == InitCascade /\ [][NextCascade]_vars

\* Account 2's profile in the stores of InitRepeat, past account 1's.
FarPid == PageLimit + 2

\* Self-service deletion called again and again, no call failing: account 1
\* owns no profile, one, or one more than a query page holds, each with up
\* to one campaign with up to one order; the users may be removed out of
\* band.
InitRepeat ==
    \E n \in {0, 1, PageLimit + 1}, m \in {0, 1}, k \in {0, 1}, nc \in {0, MaxCatalogs} :
        /\ (n = 0 => m = 0) /\ (m = 0 => k = 0)
        /\ profiles = {ProfileItem(1, i) : i \in 1..n} \cup {ProfileItem(2, FarPid)}
        /\ shares = {ShareItem(i, 2, ReadOnly) : i \in 1..n}
                      \cup {ShareItem(FarPid, 1, WriteOnly)}
        /\ campaigns = {CampaignItem(i, CampId(i, j)) : i \in 1..n, j \in 1..m}
                         \cup {CampaignItem(FarPid, CampId(FarPid, 1))}
        /\ orders = {OrderItem(CampId(i, j), o) : i \in 1..n, j \in 1..m, o \in 1..k}
                      \cup {OrderItem(CampId(FarPid, 1), 1)}
        /\ catalogs = {CatalogItem(c, 1, FlagOf(c)) : c \in 1..nc}
                        \cup {CatalogItem(OtherCatalog, 2, "false")}
        /\ accounts = {AccountItem(a) : a \in Accounts}
        /\ users = Accounts
        /\ proc = [p \in Procs |-> IdleProc]
        /\ faults = 0
        /\ transfers = 0
        /\ cascade = NoCascade

NextRepeat ==
    \/ Call_delete_my_account(1)
    \/ Step_query_profiles(1)
    \/ Step_query_campaigns(1)
    \/ Step_query_orders(1)
    \/ Step_delete_order(1)
    \/ Step_delete_campaign(1)
    \/ Step_query_shares(1)
    \/ Step_delete_share(1)
    \/ Step_delete_profile(1)
    \/ Step_scan_catalogs(1)
    \/ Step_soft_delete_catalog(1)
    \/ Step_accounts_delete_item(1)
    \/ Step_list_users(1)
    \/ Step_cognito_delete_user(1)
    \/ \E a \in {1, 2} : Env_remove_user(a)
    \/ Return(1)

SpecRepeat == InitRepeat /\ [][NextRepeat]_vars

\* The admin bulk deletes with failing store calls: account 1 owns one
\* profile or MaxProfiles, each with one campaign with two orders, and
\* MaxCatalogs catalogs.
InitBulk ==
    \E n \in {1, MaxProfiles} : InitStore(n, 1, 2, MaxCatalogs, CascadeShares(n))

NextBulk ==
    \/ Call_admin_delete_user(1)
    \/ Step_query_profiles(1)
    \/ Step_query_campaigns(1)
    \/ Step_query_orders(1)
    \/ Step_delete_order(1)
    \/ Step_delete_campaign(1)
    \/ Step_query_shares(1)
    \/ Step_delete_share(1)
    \/ Step_delete_profile(1)
    \/ Step_scan_catalogs(1)
    \/ Step_soft_delete_catalog(1)
    \/ Fail_cascade(1)
    \/ Return(1)

SpecBulk == InitBulk /\ [][NextBulk]_vars

\* Self-service deletion, with failures of the store and of the identity
\* provider.
NextDelete ==
    \/ Call_delete_my_account(1)
    \/ Step_query_profiles(1)
    \/ Step_query_campaigns(1)
    \/ Step_query_orders(1)
    \/ Step_delete_order(1)
    \/ Step_delete_campaign(1)
    \/ Step_query_shares(1)
    \/ Step_delete_share(1)
    \/ Step_delete_profile(1)
    \/ Step_scan_catalogs(1)
    \/ Step_soft_delete_catalog(1)
    \/ Fail_cascade(1)
    \/ Step_accounts_delete_item(1)
    \/ Step_list_users(1)
    \/ Step_cognito_delete_user(1)
    \/ Fail_delete_my_account(1)
    \/ Return(1)

SpecDelete == InitCascade /\ [][NextDelete]_vars

\* The cascade functions and admin_delete_share, called one after the other
\* by an admin, without failures.
NextRevoke ==
    \/ Call_admin_delete_user(1)
    \/ Step_query_profiles(1)
    \/ Step_query_campaigns(1)
    \/ Step_query_orders(1)
    \/ Step_delete_order(1)
    \/ Step_delete_campaign(1)
    \/ Step_query_shares(1)
    \/ Step_delete_share(1)
    \/ Step_delete_profile(1)
    \/ Step_scan_catalogs(1)
    \/ Step_soft_delete_catalog(1)
    \/ Call_admin_delete_share(1)
    \/ Step_admin_delete_share(1)
    \/ Return(1)

SpecRevoke == InitCascade /\ [][NextRevoke]_vars

\* admin_delete_user and admin_delete_share against the identity provider
\* and the store, with their failures, over accounts that own nothing or
\* MaxProfiles profiles with a campaign and an order each.
InitAdmin ==
    \E n \in {0, MaxProfiles} :
        LET m == IF n = 0 THEN 0 ELSE 1
        IN  InitStore(n, m, m, 0, CascadeShares(n))

NextAdmin ==
    \/ Call_adminDeleteUser(1)
    \/ Step_find_cognito_user_by_sub(1)
    \/ Step_admin_cognito_delete_user(1)
    \/ Step_delete_account_from_dynamodb(1)
    \/ Fail_adminDeleteUser(1)
    \/ Call_admin_delete_share(1)
    \/ Step_admin_delete_share(1)
    \/ Fail_admin_delete_share(1)
    \/ Env_remove_user(1)
    \/ Return(1)

SpecAdmin == InitAdmin /\ [][NextAdmin]_vars

\* Access checks with the caller id in either form, over unchanging stores.
NextForm ==
    \/ Call_check_profile_access(1)
    \/ Call_check_profile_access_prefixed(1)
    \/ Step_is_profile_owner(1)
    \/ Step_profile_exists(1)
    \/ Step_check_share_permissions(1)
    \/ Return(1)

SpecForm == InitAccess /\ [][NextForm]_vars

\* An admin creates a managed catalog; accounts are purged by the cascade
\* functions and by self-service deletion, without failures of those.
InitCatalog ==
    \E nc \in {0, 1} : InitStore(1, 1, 1, nc, CascadeShares(1))

NextCatalog ==
    \/ Call_create_managed_catalog(1)
    \/ Step_persist_catalog(1)
    \/ Fail_create_managed_catalog(1)
    \/ Call_admin_delete_user(1)
    \/ Call_delete_my_account(1)
    \/ Step_query_profiles(1)
    \/ Step_query_campaigns(1)
    \/ Step_query_orders(1)
    \/ Step_delete_order(1)
    \/ Step_delete_campaign(1)
    \/ Step_query_shares(1)
    \/ Step_delete_share(1)
    \/ Step_delete_profile(1)
    \/ Step_scan_catalogs(1)
    \/ Step_soft_delete_catalog(1)
    \/ Step_accounts_delete_item(1)
    \/ Step_list_users(1)
    \/ Step_cognito_delete_user(1)
    \/ Return(1)

SpecCatalog == InitCatalog /\ [][NextCatalog]_vars

\* Two transfer invocations at a time, their store calls interleaved, no
\* call failing.
InitRace == InitStore(1, 0, 0, 0, CascadeShares(1))

NextRace ==
    \E p \in Procs :
        \/ Call_transfer_profile_ownership(p)
        \/ Step_get_and_verify_profile(p)
        \/ Step_verify_new_owner_has_share(p)
        \/ Step_transfer_delete_item(p)
        \/ Step_transfer_put_item(p)
        \/ Step_delete_share_if_exists(p)
        \/ Return(p)

SpecRace == InitRace /\ [][NextRace]_vars

\* A cascade function or self-service deletion is interrupted between two
\* store calls and its event is delivered again; no call fails.  Account 1
\* owns one profile with one campaign whose orders fit one query page or
\* need a second one.
InitRetry ==
    \E k \in {1, PageLimit + 1}, nc \in {0, 1} :
        InitStore(1, 1, k, nc, CascadeShares(1))

NextRetry ==
    \/ Call_admin_delete_user(1)
    \/ Call_delete_my_account(1)
    \/ Interrupt(1)
    \/ (proc[1].pc = "interrupted" /\ Reinvoke(2, 1))
    \/ \E p \in Procs :
         \/ Step_query_profiles(p)
         \/ Step_query_campaigns(p)
         \/ Step_query_orders(p)
         \/ Step_delete_order(p)
         \/ Step_delete_campaign(p)
         \/ Step_query_shares(p)
         \/ Step_delete_share(p)
         \/ Step_delete_profile(p)
         \/ Step_scan_catalogs(p)
         \/ Step_soft_delete_catalog(p)
         \/ Step_accounts_delete_item(p)
         \/ Step_list_users(p)
         \/ Step_cognito_delete_user(p)

SpecRetry == InitRetry /\ [][NextRetry]_vars

\* A cascade function or self-service deletion is invoked a second time
\* for the same account while the first invocation runs, their store calls
\* interleaved; no call fails.
NextConcurrent ==
    \/ Call_admin_delete_user(1)
    \/ Call_delete_my_account(1)
    \/ Reinvoke(2, 1)
    \/ \E p \in Procs :
         \/ Step_query_profiles(p)
         \/ Step_query_campaigns(p)
         \/ Step_query_orders(p)
         \/ Step_delete_order(p)
         \/ Step_delete_campaign(p)
         \/ Step_query_shares(p)
         \/ Step_delete_share(p)
         \/ Step_delete_profile(p)
         \/ Step_scan_catalogs(p)
         \/ Step_soft_delete_catalog(p)
         \/ Step_accounts_delete_item(p)
         \/ Step_list_users(p)
         \/ Step_cognito_delete_user(p)

SpecConcurrent == InitRetry /\ [][NextConcurrent]_vars

\* An admin calls one cascade function (slot 1, kept as the record of that
\* call) and then any cascade functions one after the other (slot 2); no
\* call fails.  Account 1 owns one catalog and one profile whose campaigns,
\* with one order each, fit one query page or need a second one.
InitOrphan ==
    \E m \in {1, PageLimit + 1} : InitStore(1, m, 1, 1, CascadeShares(1))

NextOrphan ==
    \/ Call_admin_delete_user(1)
    \/ (Done(1) /\ Call_admin_delete_user(2))
    \/ Return(2)
    \/ \E p \in Procs :
         \/ Step_query_profiles(p)
         \/ Step_query_campaigns(p)
         \/ Step_query_orders(p)
         \/ Step_delete_order(p)
         \/ Step_delete_campaign(p)
         \/ Step_query_shares(p)
         \/ Step_delete_share(p)
         \/ Step_delete_profile(p)
         \/ Step_scan_catalogs(p)
         \/ Step_soft_delete_catalog(p)

SpecOrphan == InitOrphan /\ [][NextOrphan]_vars

\* SpecCampaigns: the two resolvers that write Campaign records (slot 2,
\* any number of calls) beside one cascade function (slot 1), with failing
\* store calls in both.  Account 1 owns a catalog and one profile with one
\* campaign with one order.
\* Step_transact_write_retry is not among the steps: an invocation with a
\* prefill ends with KeyError before the transaction, so no transaction
\* carries a Share and none is cancelled.
InitCampaigns == InitStore(1, 1, 1, 1, CascadeShares(1))

NextCampaigns ==
    \/ Call_admin_delete_user(1)
    \/ Call_create_campaign(2)
    \/ Call_admin_update_campaign_shared_code(2)
    \/ Return(2)
    \/ \E p \in Procs :
         \/ Step_is_profile_owner(p)
         \/ Step_profile_exists(p)
         \/ Step_check_share_permissions(p)
         \/ Step_get_profile(p)
         \/ Step_get_prefill(p)
         \/ Step_transact_write_items(p)
         \/ Fail_create_campaign(p)
         \/ Step_get_campaign_profile_id(p)
         \/ Step_update_campaign_shared_code(p)
         \/ Fail_admin_update_campaign_shared_code(p)
         \/ Fail_cascade(p)
         \/ Step_query_profiles(p)
         \/ Step_query_campaigns(p)
         \/ Step_query_orders(p)
         \/ Step_delete_order(p)
         \/ Step_delete_campaign(p)
         \/ Step_query_shares(p)
         \/ Step_delete_share(p)
         \/ Step_delete_profile(p)
         \/ Step_scan_catalogs(p)
         \/ Step_soft_delete_catalog(p)

SpecCampaigns == InitCampaigns /\ [][NextCampaigns]_vars

\* SpecPreferences: the two resolvers that write the caller's Account
\* record (slot 2, any number of calls) beside one deletion of an account,
\* by its holder or by an admin (slot 1), with failing calls in both.
\* Account 1 owns one profile with one campaign with one order, account 2
\* also a catalog.
InitPreferences == InitStore(1, 1, 1, 0, CascadeShares(1))

NextPreferences ==
    \/ Call_delete_my_account(1)
    \/ Call_adminDeleteUser(1)
    \/ Call_confirm_qr_upload(2)
    \/ Call_delete_qr_code(2)
    \/ Return(2)
    \/ \E p \in Procs :
         \/ Step_qr_get_item(p)
         \/ Step_verify_payment_method_exists(p)
         \/ Step_clear_get_item(p)
         \/ Step_accounts_update_item(p)
         \/ Fail_accounts_update(p)
         \/ Fail_cascade(p)
         \/ Fail_delete_my_account(p)
         \/ Fail_adminDeleteUser(p)
         \/ Step_query_profiles(p)
         \/ Step_query_campaigns(p)
         \/ Step_query_orders(p)
         \/ Step_delete_order(p)
         \/ Step_delete_campaign(p)
         \/ Step_query_shares(p)
         \/ Step_delete_share(p)
         \/ Step_delete_profile(p)
         \/ Step_scan_catalogs(p)
         \/ Step_soft_delete_catalog(p)
         \/ Step_accounts_delete_item(p)
         \/ Step_list_users(p)
         \/ Step_cognito_delete_user(p)
         \/ Step_find_cognito_user_by_sub(p)
         \/ Step_admin_cognito_delete_user(p)
         \/ Step_delete_account_from_dynamodb(p)

SpecPreferences == InitPreferences /\ [][NextPreferences]_vars

\* ------------------------------------------------------------------ claims
\* A completed check_profile_access invocation.  Invocations run one at a
\* time in SpecAccess, so the store is the one the check read.
Checked(p) == proc[p].op = "check_profile_access" /\ Done(p)

\* The store holds the Profile item (ACCOUNT#a, pid): a is its stored owner.
StoredOwner(a, pid) ==
    \E it \in profiles : it.ownerAccountId = Db(a) /\ it.profileId = pid

\* The entries of a permissions list as they are stored.
StoredEntries(share) ==
    {share.permissions.entries[i].v : i \in DOMAIN share.permissions.entries}

\* A permissions attribute that is a list of the plain words READ and WRITE.
PlainPermissions(share) ==
    /\ share.permissions.isList
    /\ \A i \in DOMAIN share.permissions.entries :
         /\ share.permissions.entries[i].t = "str"
         /\ share.permissions.entries[i].v \in Permissions

\* C1 (owner supremacy): a check by the stored owner of the profile, for
\* READ or for WRITE, returns true whatever Share records exist.
C1_OwnerSupremacy ==
    \A p \in Procs :
        (Checked(p) /\ StoredOwner(proc[p].caller.id, proc[p].pid))
            => proc[p].result = Ok("TRUE")

\* The owner asked for WRITE and got it while holding a READ-only Share on
\* the own profile.
C1_Witness ==
    \E p \in Procs :
        /\ Checked(p) /\ StoredOwner(proc[p].caller.id, proc[p].pid)
        /\ proc[p].perm = "WRITE"
        /\ proc[p].result = Ok("TRUE")
        /\ \E sh \in GetShare(proc[p].pid, Db(proc[p].caller.id)) :
             sh.permissions = ReadOnly

\* C2 (share permission table): for a caller who is not the owner and holds
\* a Share on an existing profile, READ is granted iff the Share's set holds
\* READ or WRITE, and WRITE iff it holds WRITE.
C2_SharePermissionTable ==
    \A p \in Procs :
        (/\ Checked(p)
         /\ ~StoredOwner(proc[p].caller.id, proc[p].pid)
         /\ ProfilesById(proc[p].pid) # {})
            => \A sh \in GetShare(proc[p].pid, Db(proc[p].caller.id)) :
                 PlainPermissions(sh) =>
                   LET set == StoredEntries(sh)
                       granted == IF proc[p].perm = "READ"
                                  THEN "READ" \in set \/ "WRITE" \in set
                                  ELSE "WRITE" \in set
                   IN  proc[p].result = Ok(IF granted THEN "TRUE" ELSE "FALSE")

\* A READ check against a Share that holds WRITE only was granted.
C2_Witness ==
    \E p \in Procs :
        /\ Checked(p)
        /\ ~StoredOwner(proc[p].caller.id, proc[p].pid)
        /\ proc[p].perm = "READ"
        /\ proc[p].result = Ok("TRUE")
        /\ \E sh \in GetShare(proc[p].pid, Db(proc[p].caller.id)) :
             sh.permissions = WriteOnly

\* C3 (share gate): a caller who is not the owner of the existing profile
\* and has no Share keyed (profileId, caller) is refused READ and WRITE.
C3_ShareGate ==
    \A p \in Procs :
        (/\ Checked(p)
         /\ ~StoredOwner(proc[p].caller.id, proc[p].pid)
         /\ ProfilesById(proc[p].pid) # {}
         /\ GetShare(proc[p].pid, Db(proc[p].caller.id)) = {})
            => proc[p].result = Ok("FALSE")

\* The refused caller holds a Share on another profile, and another account
\* holds a WRITE Share on this one.
C3_Witness ==
    \E p \in Procs :
        /\ Checked(p)
        /\ ~StoredOwner(proc[p].caller.id, proc[p].pid)
        /\ ProfilesById(proc[p].pid) # {}
        /\ GetShare(proc[p].pid, Db(proc[p].caller.id)) = {}
        /\ proc[p].perm = "READ"
        /\ proc[p].result = Ok("FALSE")
        /\ \E sh \in shares : sh.targetAccountId = Db(proc[p].caller.id)
        /\ \E sh \in shares : sh.profileId = proc[p].pid /\ sh.permissions = WriteOnly

\* C4 (existence versus access): a check against a profileId with no Profile
\* item raises NotFound for every caller and permission.
C4_NotFound ==
    \A p \in Procs :
        (Checked(p) /\ ProfilesById(proc[p].pid) = {})
            => proc[p].result = Err("NOT_FOUND")

\* NotFound was raised for a caller whose Share on the vanished profile is
\* still stored.
C4_Witness ==
    \E p \in Procs :
        /\ Checked(p) /\ ProfilesById(proc[p].pid) = {}
        /\ proc[p].result = Err("NOT_FOUND")
        /\ GetShare(proc[p].pid, Db(proc[p].caller.id)) # {}

\* The profileIds account a owns in table `profs`, the campaignIds under
\* them in table `camps`.
OwnedPids(profs, a) == {x.profileId : x \in {y \in profs : y.ownerAccountId = a}}
CampaignIdsOf(camps, pids) == {x.campaignId : x \in {y \in camps : y.profileId \in pids}}

\* Nothing of account a is left: of the profiles it owned in the store
\* `pre`, of their campaigns, orders and shares; each catalog it owned is
\* kept, flagged isDeleted = true and otherwise as it was.
CascadeComplete(a, pre) ==
    LET owned == OwnedPids(pre.profiles, a)
        camps == CampaignIdsOf(pre.campaigns, owned)
    IN  /\ \A x \in profiles : x.ownerAccountId # a
        /\ \A x \in campaigns : x.profileId \notin owned
        /\ \A x \in orders : x.campaignId \notin camps
        /\ \A x \in shares : x.profileId \notin owned
        /\ \A x \in pre.catalogs :
             x.ownerAccountId = a =>
               /\ [x EXCEPT !.isDeleted = "true"] \in catalogs
               /\ Cardinality({y \in catalogs : y.catalogId = x.catalogId}) = 1

\* C5 (cascade completeness): once admin_delete_user_orders, _campaigns,
\* _shares, _profiles and _catalogs have run for an account one after the
\* other without failure, the store holds no Order, Campaign, Profile or
\* Share of the account and each of its Catalogs is kept with isDeleted =
\* true and its other fields unchanged.
C5_CascadeCompleteness ==
    cascade.stage = 5 => CascadeComplete(cascade.acct, cascade.pre)

DeletedAccount(p) ==
    /\ proc[p].op = "delete_my_account"
    /\ Done(p)
    /\ proc[p].result = Ok("TRUE")

\* C6 (success means the whole chain completed): whenever delete_my_account
\* returns true, the caller's Account record, Profiles, their Campaigns,
\* Orders and Shares are gone, the caller's Catalogs are kept and flagged,
\* and the identity provider holds no user for the caller.
C6_SuccessMeansComplete ==
    \A p \in Procs :
        DeletedAccount(p) =>
            /\ \A x \in accounts : x.accountId # proc[p].acct
            /\ CascadeComplete(proc[p].acct, proc[p].pre)
            /\ proc[p].caller.id \notin users

\* What _delete_all_user_data has completed when every step succeeded.
FullLog == CascadeFns \o <<"accounts_delete_item">>

\* C7 (fail-stop, identity provider last): a failure of a cascade function
\* or of the Account delete inside delete_my_account ends the call with
\* InternalError and no later step runs (the tables of the later steps are
\* as they were), and the identity-provider user is deleted only after the
\* five cascade functions and the Account delete have all completed.
C7_FailStop ==
    \A p \in Procs :
        proc[p].op = "delete_my_account" =>
            /\ proc[p].failed =>
                 /\ Done(p) /\ proc[p].result = Err("INTERNAL_ERROR")
                 /\ Len(proc[p].log) < 1 => campaigns = proc[p].pre.campaigns
                 /\ Len(proc[p].log) < 2 => shares = proc[p].pre.shares
                 /\ Len(proc[p].log) < 3 => profiles = proc[p].pre.profiles
                 /\ Len(proc[p].log) < 4 => catalogs = proc[p].pre.catalogs
                 /\ Len(proc[p].log) < 6 => accounts = proc[p].pre.accounts
                 /\ users = proc[p].pre.users
            /\ users # proc[p].pre.users =>
                 /\ proc[p].log = FullLog
                 /\ ~proc[p].failed
                 /\ \A x \in accounts : x.accountId # proc[p].acct

\* The Account delete failed after the cascade had removed the caller's
\* profiles: InternalError, the Account record and the user still there.
C7_Witness ==
    \E p \in Procs :
        /\ proc[p].op = "delete_my_account" /\ proc[p].failed
        /\ proc[p].log = CascadeFns
        /\ profiles # proc[p].pre.profiles
        /\ proc[p].result = Err("INTERNAL_ERROR")
        /\ \E x \in accounts : x.accountId = proc[p].acct
        /\ proc[p].caller.id \in users

Transferred(p) == proc[p].op = "transfer_profile_ownership" /\ Done(p)

\* The transfer was called by the owner of the profile, without the admin
\* claim, for a new owner with no Share keyed (profileId, newOwner).
OwnerTransferWithoutShare(p) ==
    /\ Transferred(p)
    /\ ~is_admin(proc[p].groups)
    /\ \E it \in proc[p].pre.profiles :
         it.profileId = proc[p].pid /\ it.ownerAccountId = proc[p].caller
    /\ \A sh \in proc[p].pre.shares :
         ~(sh.profileId = proc[p].pid /\ sh.targetAccountId = proc[p].newOwner)

\* C8 (transfer share precondition): a transfer by the non-admin owner to an
\* account with no Share on the profile fails with the validation error and
\* leaves every store record as it was (no store call having failed).
C8_TransferSharePrecondition ==
    \A p \in Procs :
        (OwnerTransferWithoutShare(p) /\ ~proc[p].failed)
            => /\ proc[p].result = Err("ValueError: New owner must have existing access")
               /\ Snapshot = proc[p].pre

\* The owner's transfer to another account was refused for the missing Share.
C8_Witness ==
    \E p \in Procs :
        /\ OwnerTransferWithoutShare(p) /\ ~proc[p].failed
        /\ proc[p].newOwner # proc[p].caller
        /\ proc[p].result = Err("ValueError: New owner must have existing access")

\* C9 (transfer retires the redundant share): whenever a transfer of P to N
\* reports success, no Share record keyed (P, N) exists afterwards.
C9_TransferRetiresShare ==
    \A p \in Procs :
        (Transferred(p) /\ proc[p].result.kind = "ok")
            => GetShare(proc[p].pid, proc[p].newOwner) = {}

\* C10 (single owner): at every instant no profileId has two Profile items,
\* and the profile of a transfer under way has exactly one.
C10_SingleOwner ==
    /\ \A i \in 1..OtherPid : Cardinality(ProfilesById(Db(i))) <= 1
    /\ \A p \in Procs :
         (/\ proc[p].op = "transfer_profile_ownership"
          /\ proc[p].pc \in {"transfer_delete_item", "transfer_put_item",
                             "delete_share_if_exists"})
            => Cardinality(ProfilesById(proc[p].pid)) = 1

\* The Profile items stored under profileId pid when the call of p began.
ProfileBefore(p) == {it \in proc[p].pre.profiles : it.profileId = proc[p].pid}
ShareBefore(p) ==
    {sh \in proc[p].pre.shares :
       sh.profileId = proc[p].pid /\ sh.targetAccountId = proc[p].newOwner}
TransferSucceeded(p) ==
    Transferred(p) /\ proc[p].result.kind = "ok" /\ ~proc[p].failed

\* C11 (transfer result): after a transfer of P from O to N that succeeded
\* with no failure, exactly one Profile item with profileId P exists, it is
\* the item stored before with ownerAccountId replaced by N (so nothing is
\* left under (O, P) and no other attribute changed), and it is the record
\* returned.
C11_TransferResult ==
    \A p \in Procs :
        TransferSucceeded(p) =>
            /\ Cardinality(ProfileBefore(p)) = 1
            /\ \A old \in ProfileBefore(p) :
                 LET new == [old EXCEPT !.ownerAccountId = proc[p].newOwner]
                 IN  /\ ProfilesById(proc[p].pid) = {new}
                     /\ proc[p].result.item = new
                     /\ new.ownerAccountId # old.ownerAccountId => old \notin profiles

\* The owner, without the admin claim, has transferred the profile to
\* another account.
C11_Witness ==
    \E p \in Procs :
        /\ TransferSucceeded(p)
        /\ ~is_admin(proc[p].groups)
        /\ \E old \in ProfileBefore(p) :
             /\ old.ownerAccountId = proc[p].caller
             /\ old.ownerAccountId # proc[p].newOwner
             /\ proc[p].result.item.ownerAccountId = proc[p].newOwner
             /\ proc[p].result.item.sellerName = old.sellerName

\* The transfer was called with the admin claim for an existing profile and
\* a new owner with no Share on it.
AdminTransferWithoutShare(p) ==
    /\ Transferred(p)
    /\ ~proc[p].failed
    /\ is_admin(proc[p].groups)
    /\ ProfileBefore(p) # {}
    /\ ShareBefore(p) = {}

\* C12 (admin bypass): a transfer by a caller with the admin claim to an
\* account with no Share on the profile succeeds, owner or not: the profile
\* is keyed under the new owner, and the Share that is not there to retire
\* causes no error and no change of the shares table.
C12_AdminBypass ==
    \A p \in Procs :
        AdminTransferWithoutShare(p) =>
            /\ proc[p].result.kind = "ok"
            /\ proc[p].result.item.ownerAccountId = proc[p].newOwner
            /\ \A it \in ProfilesById(proc[p].pid) : it.ownerAccountId = proc[p].newOwner
            /\ ProfilesById(proc[p].pid) # {}
            /\ shares = proc[p].pre.shares

\* An admin that does not own the profile has moved it to an account
\* without a Share.
C12_Witness ==
    \E p \in Procs :
        /\ AdminTransferWithoutShare(p)
        /\ \A old \in ProfileBefore(p) :
             old.ownerAccountId # proc[p].caller /\ old.ownerAccountId # proc[p].newOwner
        /\ proc[p].result.kind = "ok"

\* C13 (precondition order, first failure wins): a transfer for a profile
\* that does not exist ends with NotFound; else one by a caller that is
\* neither owner nor admin ends with Forbidden, a WRITE Share
\* notwithstanding; else one by a non-admin to an account without a Share
\* ends with the validation error; and a call that ends with one of these
\* has changed no store record.
C13_PreconditionOrder ==
    \A p \in Procs :
        (Transferred(p) /\ ~proc[p].failed) =>
            LET exists == ProfileBefore(p) # {}
                caller_is_owner == \E it \in ProfileBefore(p) : it.ownerAccountId = proc[p].caller
                caller_is_admin == is_admin(proc[p].groups)
            IN  /\ ~exists => proc[p].result = Err("NOT_FOUND")
                /\ (exists /\ ~caller_is_owner /\ ~caller_is_admin)
                     => proc[p].result = Err("FORBIDDEN")
                /\ (exists /\ caller_is_owner /\ ~caller_is_admin /\ ShareBefore(p) = {})
                     => proc[p].result = Err("ValueError: New owner must have existing access")
                /\ proc[p].result.kind = "err" => Snapshot = proc[p].pre

\* C14 (admin gate on the cascade): each of the five admin_delete_user_<x>
\* operations called without the ADMIN group ends with Forbidden, whatever
\* its accountId argument (the admin check comes first), and called by an
\* admin with a missing or blank accountId ends with InvalidInput; in both
\* cases no record is changed.
C14_AdminGate ==
    \A p \in Procs :
        proc[p].op \in CascadeOps =>
            /\ ~is_admin(proc[p].groups) =>
                 /\ Done(p) /\ proc[p].result = Err("FORBIDDEN")
                 /\ Snapshot = proc[p].pre
            /\ (is_admin(proc[p].groups) /\ proc[p].arg \in {Empty, Blank}) =>
                 /\ Done(p) /\ proc[p].result = Err("INVALID_INPUT")
                 /\ Snapshot = proc[p].pre

\* A caller without the ADMIN group and with a blank accountId was refused
\* as Forbidden by admin_delete_user_catalogs.
C14_Witness ==
    \E p \in Procs :
        /\ proc[p].op = "admin_delete_user_catalogs"
        /\ ~is_admin(proc[p].groups)
        /\ proc[p].arg = Blank
        /\ proc[p].result = Err("FORBIDDEN")
        /\ catalogs # {}

\* The records of the store st that belong to accounts other than a, with
\* "belonging" read in the store `pre`: Account records, Profiles by owner,
\* Campaigns by their Profile's owner, Orders by their Campaign's, Catalogs
\* by owner.
OthersData(st, a, pre) ==
    LET owned == OwnedPids(pre.profiles, a)
        camps == CampaignIdsOf(pre.campaigns, owned)
    IN  [accounts |-> {x \in st.accounts : x.accountId # a},
         profiles |-> {x \in st.profiles : x.ownerAccountId # a},
         campaigns |-> {x \in st.campaigns : x.profileId \notin owned},
         orders |-> {x \in st.orders : x.campaignId \notin camps},
         catalogs |-> {x \in st.catalogs : x.ownerAccountId # a},
         users |-> st.users \ {a.id}]

\* C15 (self-service deletion touches only the caller's data): the account
\* delete_my_account works on is the caller's identity.sub whatever
\* accountId argument the event carries, and at every step of the call the
\* Accounts, Profiles, Campaigns, Orders and Catalogs of every other account
\* (and the other identity-provider users) are as they were.
C15_OnlyOwnData ==
    \A p \in Procs :
        proc[p].op = "delete_my_account" =>
            /\ proc[p].acct = Prefixed(proc[p].caller)
            /\ OthersData(Snapshot, Prefixed(proc[p].caller), proc[p].pre)
                 = OthersData(proc[p].pre, Prefixed(proc[p].caller), proc[p].pre)

\* Account 1 has deleted itself with an event naming account 2: its own
\* profiles are gone, account 2's profile and Account record are there.
C15_Witness ==
    \E p \in Procs :
        /\ DeletedAccount(p)
        /\ proc[p].caller = Raw(1)
        /\ proc[p].arg = Raw(2)
        /\ profiles # proc[p].pre.profiles
        /\ ProfileItem(2, OtherPid) \in profiles
        /\ AccountItem(2) \in accounts
        /\ AccountItem(1) \notin accounts

\* The catalogs of table cats that account a owns with isDeleted absent or
\* false.
Unflagged(cats, a) == {x \in cats : ScanFilter(x, a)}

\* C16 (catalogs are only soft-deleted): admin_delete_user_catalogs never
\* removes or adds a Catalog record; a catalog of another owner or one
\* already flagged stays as it was, a catalog of the account with isDeleted
\* absent or false stays as it was or differs in isDeleted = true alone; when
\* the call returns, every such catalog is flagged and the count is their
\* number, so a run right after it counts 0.
C16_SoftDeleteOnly ==
    \A p \in Procs :
        (proc[p].op = "admin_delete_user_catalogs" /\ proc[p].result.kind # "err") =>
            LET before == proc[p].pre.catalogs
                todo == Unflagged(before, proc[p].acct)
            IN  /\ {x.catalogId : x \in catalogs} = {x.catalogId : x \in before}
                /\ Cardinality(catalogs) = Cardinality(before)
                /\ \A x \in before \ todo : x \in catalogs
                /\ \A x \in todo :
                     x \in catalogs \/ [x EXCEPT !.isDeleted = "true"] \in catalogs
                /\ Done(p) =>
                     /\ proc[p].result = OkCount(Cardinality(todo))
                     /\ Unflagged(catalogs, proc[p].acct) = {}
                     /\ \A x \in todo : [x EXCEPT !.isDeleted = "true"] \in catalogs

\* A second run: the account's catalogs were flagged by a run before, this
\* one returned 0 and the catalogs are all still there.
C16_Witness ==
    \E p \in Procs :
        /\ proc[p].op = "admin_delete_user_catalogs"
        /\ Done(p)
        /\ proc[p].result = OkCount(0)
        /\ CatalogItem(1, 1, "true") \in proc[p].pre.catalogs
        /\ CatalogItem(2, 1, "true") \in proc[p].pre.catalogs
        /\ CatalogItem(OtherCatalog, 2, "false") \in catalogs
        /\ catalogs = proc[p].pre.catalogs

\* delete_my_account was called, with USER_POOL_ID configured, when the
\* store held no Account record of the caller: an earlier call for the same
\* caller has completed.
CalledAgain(p) ==
    /\ proc[p].op = "delete_my_account"
    /\ ~(Done(p) /\ proc[p].log = <<>>)
    /\ \A x \in proc[p].pre.accounts : x.accountId # proc[p].acct

\* C17 (self-deletion idempotence): with no store or provider failure other
\* than user-not-found, delete_my_account returns true, also when the user
\* is absent at the lookup or gone by the time of the delete; and a call
\* made after an earlier one for the same caller has completed changes no
\* store record.
C17_SelfDeletionIdempotent ==
    \A p \in Procs :
        /\ (proc[p].op = "delete_my_account" /\ Done(p) /\ proc[p].log # <<>>)
             => proc[p].result = Ok("TRUE")
        /\ CalledAgain(p) =>
             /\ profiles = proc[p].pre.profiles
             /\ shares = proc[p].pre.shares
             /\ campaigns = proc[p].pre.campaigns
             /\ orders = proc[p].pre.orders
             /\ catalogs = proc[p].pre.catalogs
             /\ accounts = proc[p].pre.accounts

\* C18 (provider failure after data cleanup): when the user lookup or the
\* user delete of delete_my_account fails with an error other than
\* user-not-found, the call ends with InternalError, and the caller's
\* Account record and cascaded data are gone and stay gone.
C18_ProviderFailureAfterCleanup ==
    \A p \in Procs :
        (proc[p].op = "delete_my_account" /\ proc[p].failed /\ proc[p].log = FullLog) =>
            /\ Done(p) /\ proc[p].result = Err("INTERNAL_ERROR")
            /\ \A x \in accounts : x.accountId # proc[p].acct
            /\ CascadeComplete(proc[p].acct, proc[p].pre)

\* An admin bulk delete in which a delete of one item failed: a store call
\* failed while the loop had items to go.
ItemDeleteFailed(p) ==
    /\ proc[p].op \in CascadeOps
    /\ proc[p].failed
    /\ proc[p].items # <<>>

\* What the operation of p has removed so far (for catalogs: flagged).
RemovedSoFar(p) ==
    CASE proc[p].op = "admin_delete_user_orders" -> proc[p].pre.orders \ orders
      [] proc[p].op = "admin_delete_user_campaigns" -> proc[p].pre.campaigns \ campaigns
      [] proc[p].op = "admin_delete_user_shares" -> proc[p].pre.shares \ shares
      [] proc[p].op = "admin_delete_user_profiles" -> proc[p].pre.profiles \ profiles
      [] OTHER -> proc[p].pre.catalogs \ catalogs

StillStored(p, it) ==
    CASE proc[p].op = "admin_delete_user_orders" -> it \in orders
      [] proc[p].op = "admin_delete_user_campaigns" -> it \in campaigns
      [] proc[p].op = "admin_delete_user_shares" -> it \in shares
      [] proc[p].op = "admin_delete_user_profiles" -> it \in profiles
      [] OTHER -> it \in catalogs

\* C19 (best-effort admin bulk deletes): a failure while deleting one item
\* does not end the operation: it returns a count, and the items after the
\* one whose delete failed have been processed.
C19_BestEffort ==
    \A p \in Procs :
        (ItemDeleteFailed(p) /\ Done(p)) =>
            /\ proc[p].result.kind = "ok"
            /\ \A i \in DOMAIN proc[p].items :
                 i > 1 => ~StillStored(p, proc[p].items[i])

\* The records the operation of p is to process, in the store st: of the
\* account that is its argument, read in the store when it was called.
Remaining(p, st) ==
    LET owned == OwnedPids(proc[p].pre.profiles, proc[p].acct)
        camps == CampaignIdsOf(proc[p].pre.campaigns, owned)
    IN  CASE proc[p].op = "admin_delete_user_orders" ->
               {x \in st.orders : x.campaignId \in camps}
          [] proc[p].op = "admin_delete_user_campaigns" ->
               {x \in st.campaigns : x.profileId \in owned}
          [] proc[p].op = "admin_delete_user_shares" ->
               {x \in st.shares : x.profileId \in owned}
          [] proc[p].op = "admin_delete_user_profiles" ->
               {x \in st.profiles : x.ownerAccountId = proc[p].acct}
          [] OTHER -> Unflagged(st.catalogs, proc[p].acct)

\* C20 (pagination is exhausted): a cascade operation that returns has
\* processed every record of the account it is for, however many result
\* pages they span.
C20_PaginationExhausted ==
    \A p \in Procs :
        (proc[p].op \in CascadeOps /\ Done(p) /\ proc[p].result.kind = "ok")
            => Remaining(p, Snapshot) = {}

\* C21 (counts are exact): a cascade operation that returns, run alone
\* and without failure, returns the number of records it removed (for
\* catalogs: flagged), which is the number of matching records stored when
\* it started; 0, a success, when the account owns nothing.
C21_CountsExact ==
    \A p \in Procs :
        (proc[p].op \in CascadeOps /\ Done(p) /\ is_admin(proc[p].groups)
           /\ proc[p].arg \notin {Empty, Blank}) =>
            /\ proc[p].result.kind = "ok"
            /\ proc[p].result = OkCount(Cardinality(RemovedSoFar(p)))
            /\ proc[p].result = OkCount(Cardinality(Remaining(p, proc[p].pre)))

\* A completed require_profile_access invocation.
Guarded(p) == proc[p].op = "require_profile_access" /\ Done(p)

\* C24 (access guard): require_profile_access returns normally exactly when
\* check_profile_access answered true, raises Forbidden exactly when it
\* answered false, lets its NotFound (and the error of a share lookup)
\* through, and writes nothing.
C24_AccessGuard ==
    \A p \in Procs :
        Guarded(p) =>
            /\ proc[p].log \in {<<"TRUE">>, <<"FALSE">>, <<"NOT_FOUND">>, <<"AttributeError">>}
            /\ proc[p].result = Ok("NONE") <=> proc[p].log = <<"TRUE">>
            /\ proc[p].result = Err("FORBIDDEN") <=> proc[p].log = <<"FALSE">>
            /\ proc[p].result = Err("NOT_FOUND") <=> proc[p].log = <<"NOT_FOUND">>
            /\ proc[p].result = Err("AttributeError") <=> proc[p].log = <<"AttributeError">>
            /\ Snapshot = proc[p].pre

\* The holder of a READ-only Share required WRITE and was refused.
C24_Witness ==
    \E p \in Procs :
        /\ Guarded(p)
        /\ proc[p].perm = "WRITE"
        /\ proc[p].log = <<"FALSE">>
        /\ proc[p].result = Err("FORBIDDEN")
        /\ \E sh \in GetShare(proc[p].pid, Db(proc[p].caller.id)) :
             sh.permissions = ReadOnly

\* The permission a word stands for, whatever its case.
CanonWord(w) ==
    CASE w \in {"READ", "read"} -> "READ"
      [] w \in {"WRITE", "write"} -> "WRITE"
      [] OTHER -> w

\* The permissions a Share holds: the words of its string entries and of its
\* {"S": word} entries; none when the attribute is absent or no collection,
\* and none from an entry of another shape.
HeldPermissions(share) ==
    IF ~share.permissions.isList THEN {}
    ELSE {CanonWord(share.permissions.entries[i].v) :
            i \in {j \in DOMAIN share.permissions.entries :
                     share.permissions.entries[j].t \in {"str", "dict"}}}

\* What check_profile_access answered in the completed invocation of p.
CheckAnswer(p) ==
    IF proc[p].op = "require_profile_access" THEN proc[p].log[1]
    ELSE proc[p].result.code

\* C25 (permission normalization never throws): whatever the shape of the
\* stored permissions, a check for a caller who is not the owner of the
\* existing profile answers true or false and raises nothing; entries and
\* the requested permission count by their upper-cased word, and absent,
\* empty or non-collection permissions answer false.
C25_PermissionNormalization ==
    \A p \in Procs :
        (/\ proc[p].op \in AccessOps /\ Done(p)
         /\ ~StoredOwner(proc[p].caller.id, proc[p].pid)
         /\ ProfilesById(proc[p].pid) # {})
            => LET want == CanonWord(proc[p].requested)
                   granted ==
                     \E sh \in GetShare(proc[p].pid, Db(proc[p].caller.id)) :
                        \/ want = "READ" /\ HeldPermissions(sh) \cap {"READ", "WRITE"} # {}
                        \/ want = "WRITE" /\ "WRITE" \in HeldPermissions(sh)
               IN  CheckAnswer(p) = IF granted THEN "TRUE" ELSE "FALSE"

\* C22 (idempotent deletion): a cascade delete operation, or
\* admin_delete_share, called by an admin when the records it is to delete
\* are gone already succeeds, changes nothing and returns 0, respectively
\* true.
C22_IdempotentDeletion ==
    \A p \in Procs :
        /\ (/\ proc[p].op \in CascadeOps /\ Done(p)
            /\ is_admin(proc[p].groups) /\ Strip(proc[p].arg) # Empty
            /\ Remaining(p, proc[p].pre) = {})
              => proc[p].result = OkCount(0) /\ Snapshot = proc[p].pre
        /\ (/\ proc[p].op = "admin_delete_share" /\ Done(p)
            /\ proc[p].pid # Empty
            /\ ~\E sh \in proc[p].pre.shares :
                  sh.profileId = proc[p].pid /\ sh.targetAccountId = proc[p].acct)
              => proc[p].result = Ok("TRUE") /\ Snapshot = proc[p].pre

\* admin_delete_share was called again for the Share of account 2 on
\* account 1's first profile, which an earlier call had deleted (the Share
\* of account 3 on that profile is still stored), and returned true.
C22_Witness ==
    \E p \in Procs :
        /\ proc[p].op = "admin_delete_share" /\ Done(p)
        /\ proc[p].pid = Db(1) /\ proc[p].acct = Db(2)
        /\ ProfileItem(1, 1) \in proc[p].pre.profiles
        /\ ShareItem(1, 3, WriteOnly) \in shares
        /\ GetShare(Db(1), Db(2)) = {}
        /\ proc[p].pre.shares = shares
        /\ proc[p].result = Ok("TRUE")

\* A completed invocation of an operation behind the admin gate.
AdminGated(p) ==
    proc[p].op \in {"admin_delete_user", "admin_delete_share"} /\ Done(p)

GroupNames(groups) == {groups.names[i] : i \in DOMAIN groups.names}

\* C23 (admin status comes from the token): an admin operation is refused
\* as Forbidden exactly when the caller's cognito:groups claim, a list or a
\* single string taken as a list of one, does not contain ADMIN, whatever
\* the stored Account record says; a claim that is neither raises nothing
\* and counts as no admin.
C23_AdminFromToken ==
    \A p \in Procs :
        AdminGated(p) =>
            (proc[p].result = Err("FORBIDDEN") <=> "ADMIN" \notin GroupNames(proc[p].groups))

\* Account 1, whose stored Account record says isAdmin false, passed the
\* admin gate with the single-string claim "ADMIN".
C23_Witness ==
    \E p \in Procs :
        /\ AdminGated(p)
        /\ proc[p].caller = Raw(1)
        /\ \E x \in accounts : x.accountId = Db(1) /\ x.isAdmin = "false"
        /\ proc[p].groups = GStr("ADMIN")
        /\ proc[p].result # Err("FORBIDDEN")

\* C26 (no self-deletion on the admin path): admin_delete_user called by an
\* admin with their own account id ends with INVALID_INPUT before any call
\* to the identity provider or the store.
C26_NoSelfDeletion ==
    \A p \in Procs :
        (/\ proc[p].op = "admin_delete_user"
         /\ is_admin(proc[p].groups)
         /\ Strip(proc[p].arg) = proc[p].caller)
            => /\ Done(p)
               /\ proc[p].result = Err("INVALID_INPUT")
               /\ proc[p].log = <<>> /\ ~proc[p].failed
               /\ accounts = proc[p].pre.accounts

\* Admin account 3 asked for the deletion of account 3 and was refused; its
\* user and Account record are there.
C26_Witness ==
    \E p \in Procs :
        /\ proc[p].op = "admin_delete_user" /\ Done(p)
        /\ proc[p].caller = Raw(3) /\ proc[p].arg = Raw(3)
        /\ proc[p].groups = GList(<<"ADMIN">>)
        /\ proc[p].result = Err("INVALID_INPUT")
        /\ 3 \in users /\ AccountItem(3) \in accounts

\* The user lookup of admin_delete_user by p failed: list_users raised.
LookupFailed(p) ==
    /\ proc[p].op = "admin_delete_user" /\ Done(p) /\ proc[p].failed
    /\ Len(proc[p].log) = 1 /\ proc[p].log[1] \in FailureKinds

\* The provider's delete of admin_delete_user by p failed: the user was
\* found, and admin_delete_user raised (or the user was gone by then).
ProviderDeleteFailed(p) ==
    /\ proc[p].op = "admin_delete_user" /\ Done(p) /\ proc[p].failed
    /\ proc[p].log \in {<<"list_users">>} \cup {<<"list_users", k>> : k \in FailureKinds}

\* The Account records differ from those at the call of p only after
\* list_users found the user and admin_delete_user removed it.
AccountRecordLast(p) ==
    accounts # proc[p].pre.accounts =>
        /\ proc[p].log = <<"list_users", "admin_delete_user", "accounts_delete_item">>
        /\ proc[p].acct.id \in proc[p].pre.users \ users

\* C27 as the specification states it (provider first, Account record
\* last): admin_delete_user removes the Account record only after it found
\* the identity-provider user and deleted it; when the lookup finds no user
\* or fails the call raises NotFound, when the provider's delete fails
\* (user-not-found too) it raises InternalError, and in both cases the
\* Account records are as they were.
C27_LookupFailureIsNotFound ==
    \A p \in Procs :
        (proc[p].op = "admin_delete_user") =>
            /\ AccountRecordLast(p)
            /\ ((Done(p) /\ proc[p].log = <<"no_user">>) \/ LookupFailed(p))
                 => proc[p].result = Err("NOT_FOUND") /\ accounts = proc[p].pre.accounts
            /\ ProviderDeleteFailed(p)
                 => proc[p].result = Err("INTERNAL_ERROR") /\ accounts = proc[p].pre.accounts

\* C27, amended (provider first, Account record last): admin_delete_user
\* removes the Account record only after it found the identity-provider
\* user and deleted it; when the lookup finds no user or is answered with
\* an error (ClientError) the call raises NotFound, when the lookup fails in
\* another way it raises InternalError, when the provider's delete fails
\* (user-not-found too) it raises InternalError, and in all these cases the
\* Account records are as they were.
C27_ProviderFirst ==
    \A p \in Procs :
        (proc[p].op = "admin_delete_user") =>
            /\ AccountRecordLast(p)
            /\ ((Done(p) /\ proc[p].log = <<"no_user">>)
                  \/ (LookupFailed(p) /\ proc[p].log = <<"ClientError">>))
                 => proc[p].result = Err("NOT_FOUND") /\ accounts = proc[p].pre.accounts
            /\ (LookupFailed(p) /\ proc[p].log = <<"Exception">>)
                 => proc[p].result = Err("INTERNAL_ERROR") /\ accounts = proc[p].pre.accounts
            /\ ProviderDeleteFailed(p)
                 => proc[p].result = Err("INTERNAL_ERROR") /\ accounts = proc[p].pre.accounts

\* The lookup of account 1's user raised an error that is no ClientError:
\* the call raised InternalError, and the user and the Account record of
\* account 1 are still there.
C27_Witness ==
    \E p \in Procs :
        /\ LookupFailed(p) /\ proc[p].log = <<"Exception">>
        /\ proc[p].acct = Raw(1)
        /\ proc[p].result = Err("INTERNAL_ERROR")
        /\ 1 \in users
        /\ AccountItem(1) \in accounts

\* C30 (deletion by an admin cascades): once admin_delete_user(A) has
\* returned true, no Profile owned by A is stored, nor a Campaign, an Order
\* or a Share under a Profile A owned.
C30_AdminDeletionCascades ==
    \A p \in Procs :
        (proc[p].op = "admin_delete_user" /\ Done(p) /\ proc[p].result = Ok("TRUE"))
            => LET owned == OwnedPids(proc[p].pre.profiles, Prefixed(proc[p].acct))
                   camps == CampaignIdsOf(proc[p].pre.campaigns, owned)
               IN  /\ OwnedPids(profiles, Prefixed(proc[p].acct)) = {}
                   /\ \A x \in campaigns : x.profileId \notin owned
                   /\ \A x \in orders : x.campaignId \notin camps
                   /\ \A x \in shares : x.profileId \notin owned

\* An invocation of delete_my_account, running or completed.
SelfDeletion(p) == proc[p].op = "delete_my_account"

\* C28 (missing configuration fails fast): delete_my_account called while
\* USER_POOL_ID is not set raises InternalError before any call to the
\* store or the identity provider.
C28_MissingConfiguration ==
    \A p \in Procs :
        (SelfDeletion(p) /\ ~proc[p].pool) =>
            /\ Done(p)
            /\ proc[p].result = Err("INTERNAL_ERROR")
            /\ proc[p].log = <<>> /\ ~proc[p].failed
            /\ Snapshot = proc[p].pre

\* Account 1, which owns profiles, campaigns, orders and catalogs, called
\* without the setting: InternalError, everything of it still stored.
C28_Witness ==
    \E p \in Procs :
        /\ SelfDeletion(p) /\ ~proc[p].pool /\ Done(p)
        /\ proc[p].caller = Raw(1)
        /\ proc[p].result = Err("INTERNAL_ERROR")
        /\ Cardinality(OwnedPids(profiles, Db(1))) = MaxProfiles
        /\ orders # {} /\ Unflagged(catalogs, Db(1)) # {}
        /\ AccountItem(1) \in accounts /\ 1 \in users

\* s is an initial part of t.
IsPrefix(s, t) == Len(s) <= Len(t) /\ SubSeq(t, 1, Len(s)) = s

\* C29 (step order of delete_my_account): the steps run in the order
\* Orders, Campaigns, Shares, Profiles, Catalogs, Account record, identity
\* provider; so a Campaign is deleted only when the Orders under it are
\* deleted, a Profile only when its Campaigns and Shares are, and the
\* Account record only after all five cascade steps succeeded.
C29_StepOrder ==
    \A p \in Procs :
        SelfDeletion(p) =>
            LET pre == proc[p].pre
                gone == pre.profiles \ profiles
            IN  /\ IsPrefix(proc[p].log, FullLog)
                /\ proc[p].pc \in {"list_users", "cognito_delete_user"}
                     => proc[p].log = FullLog
                /\ users # pre.users => proc[p].log = FullLog
                /\ accounts # pre.accounts =>
                     /\ ~proc[p].failed \/ proc[p].log = FullLog
                     /\ IsPrefix(CascadeFns, proc[p].log)
                /\ \A c \in pre.campaigns \ campaigns :
                     /\ IsPrefix(<<CascadeFns[1]>>, proc[p].log)
                     /\ \A o \in orders : o.campaignId # c.campaignId
                /\ \A x \in gone :
                     /\ IsPrefix(SubSeq(CascadeFns, 1, 3), proc[p].log)
                     /\ \A c \in campaigns : c.profileId # x.profileId
                     /\ \A sh \in shares : sh.profileId # x.profileId

\* A transfer that ended at the store call `at`, which raised.
TransferFailedAt(p, at) ==
    Transferred(p) /\ proc[p].failed /\ proc[p].log = <<at>>

\* C31 (lost profile on a half-done transfer): when the delete under the
\* old key went through and the insert under the new key fails, the
\* transfer ends in failure, no Profile item with that profileId is stored
\* under any owner, and the Share records are as they were: the new
\* owner's Share is still in place.
C31_LostProfile ==
    \A p \in Procs :
        TransferFailedAt(p, "transfer_put_item") =>
            /\ proc[p].result.kind = "err"
            /\ ProfileBefore(p) # {}
            /\ ProfilesById(proc[p].pid) = {}
            /\ shares = proc[p].pre.shares

\* The owner's transfer to an account that holds a Share lost the profile
\* at the insert; that Share is still stored.
C31_Witness ==
    \E p \in Procs :
        /\ TransferFailedAt(p, "transfer_put_item")
        /\ ~is_admin(proc[p].groups)
        /\ ProfilesById(proc[p].pid) = {}
        /\ GetShare(proc[p].pid, proc[p].newOwner) # {}
        /\ proc[p].result.kind = "err"

\* C35 (store failures in a transfer are typed): a failure of the profile
\* lookup, the share lookup, the delete under the old key or the insert
\* under the new key reaches the caller as InternalError.
C35_TypedStoreFailure ==
    \A p \in Procs :
        (\E at \in {"get_and_verify_profile", "verify_new_owner_has_share",
                    "transfer_delete_item", "transfer_put_item"} :
            TransferFailedAt(p, at))
          => proc[p].result = Err("INTERNAL_ERROR")

\* A completed transfer of p that its caller, the owner of the profile
\* until then, started for another account and that succeeded.
OwnerTransferred(p) ==
    /\ TransferSucceeded(p)
    /\ proc[p].newOwner # proc[p].caller
    /\ \E it \in ProfileBefore(p) : it.ownerAccountId = proc[p].caller

\* C37 (transfer moves authority and keeps the other grants): after a
\* successful transfer of P by its owner O to N, N is granted WRITE on P, O
\* is refused READ and WRITE, and every Share on P of a third account is
\* as it was, so that account's access to P is the same as before.
C37_TransferMovesAuthority ==
    \A p \in Procs :
        OwnerTransferred(p) =>
            LET P == proc[p].pid
                O == Raw(proc[p].caller.id)
                N == Raw(proc[p].newOwner.id)
            IN  /\ check_profile_access(profiles, shares, N, P, "WRITE") = Ok("TRUE")
                /\ check_profile_access(profiles, shares, O, P, "READ") = Ok("FALSE")
                /\ check_profile_access(profiles, shares, O, P, "WRITE") = Ok("FALSE")
                /\ \A a \in Accounts \ {O.id, N.id} :
                     /\ GetShare(P, Db(a))
                          = {sh \in proc[p].pre.shares :
                               sh.profileId = P /\ sh.targetAccountId = Db(a)}
                     /\ \A perm \in Permissions :
                          check_profile_access(profiles, shares, Raw(a), P, perm)
                            = check_profile_access(proc[p].pre.profiles, proc[p].pre.shares,
                                                   Raw(a), P, perm)

\* C40 (identifier form does not change the decision): a check whose caller
\* account id and profile id come with or without their namespace prefix
\* ends as the check with both ids bare does; the owner is granted in
\* either form.
C40_IdentifierForm ==
    \A p \in Procs :
        Checked(p) =>
            proc[p].result = check_profile_access(profiles, shares, Raw(proc[p].caller.id),
                                                  Raw(proc[p].pid.id), proc[p].requested)

\* The Share records of table shs on profiles that account a does not own
\* in the Profiles table profs.
SharesOnOthersProfiles(shs, profs, a) ==
    {x \in shs : x.profileId \notin OwnedPids(profs, a)}

\* C38 (the cascade removes only shares on the account's own profiles): at
\* every step of a cascade run for account A, admin_delete_user_shares or
\* delete_my_account, the Share records on Profiles A does not own, those
\* granted to A among them, are stored unchanged, also once A's Account
\* record is gone; the run adds no Share.
C38_ReceivedSharesStay ==
    \A p \in Procs :
        proc[p].op \in {"admin_delete_user_shares", "delete_my_account"} =>
            /\ SharesOnOthersProfiles(shares, proc[p].pre.profiles, proc[p].acct)
                 = SharesOnOthersProfiles(proc[p].pre.shares, proc[p].pre.profiles,
                                          proc[p].acct)
            /\ shares \subseteq proc[p].pre.shares

\* Account 1 has deleted itself: the Shares on its own profile and its
\* Account record are gone, the Share it was granted on account 2's profile
\* is stored.
C38_Witness ==
    \E p \in Procs :
        /\ DeletedAccount(p)
        /\ proc[p].acct = Db(1)
        /\ ShareItem(1, 2, ReadOnly) \in proc[p].pre.shares
        /\ \A x \in shares : x.profileId # Db(1)
        /\ AccountItem(1) \notin accounts
        /\ ShareItem(OtherPid, 1, WriteOnly) \in shares

\* C39 (global catalogs survive their creator's purge): no catalog of type
\* ADMIN_MANAGED, as create_managed_catalog stores them, is ever flagged
\* isDeleted by a cascade run, admin_delete_user_catalogs or
\* delete_my_account, whatever account the run is for.
C39_ManagedCatalogsSurvive ==
    \A x \in ManagedCatalogs : x.isDeleted # "true"

\* Invocation p is a completed transfer of the profile with id pid that
\* returned the transferred profile.
TransferCompleted(p, pid) ==
    /\ proc[p].op = "transfer_profile_ownership"
    /\ Done(p)
    /\ proc[p].pid = pid
    /\ proc[p].result.kind = "ok"

\* C32 (concurrent transfers keep a single owner): when two transfer
\* invocations on the same Profile, one by its owner and one by an admin,
\* have both completed, whatever the interleaving of their store calls,
\* exactly one Profile item with that profileId is stored.
C32_ConcurrentSingleOwner ==
    \A p, q \in Procs :
        \A pid \in {x.profileId : x \in profiles} :
            /\ p # q
            /\ TransferCompleted(p, pid) /\ TransferCompleted(q, pid)
            /\ ~is_admin(proc[p].groups) /\ is_admin(proc[q].groups)
            => Cardinality(ProfilesById(pid)) = 1

\* Invocation q is the completed re-invocation of the interrupted
\* invocation p.
Retried(p, q) ==
    /\ proc[p].pc = "interrupted"
    /\ Done(q)
    /\ proc[q].op = proc[p].op /\ proc[q].acct = proc[p].acct
    /\ proc[q].caller = proc[p].caller

\* The Orders, Campaigns, Shares and Profiles of the account of invocation
\* p that the operation of p is to remove and that the store st holds.
LeftBehind(p, st) ==
    LET owned == OwnedPids(proc[p].pre.profiles, proc[p].acct)
        camps == CampaignIdsOf(proc[p].pre.campaigns, owned)
    IN  IF proc[p].op = "delete_my_account"
        THEN {x \in st.orders : x.campaignId \in camps}
               \cup {x \in st.campaigns : x.profileId \in owned}
               \cup {x \in st.shares : x.profileId \in owned}
               \cup {x \in st.profiles : x.ownerAccountId = proc[p].acct}
        ELSE Remaining(p, st)

\* C33 (retry converges): when delete_my_account or a cascade operation was
\* interrupted after some of its store calls and the same operation, called
\* again, has run to completion, the second call has succeeded, the store
\* is the one an uninterrupted run would have left, and no Order, Campaign,
\* Share or Profile of the account is left behind.
C33_RetryConverges ==
    \A p, q \in Procs :
        Retried(p, q) =>
            /\ proc[q].result.kind = "ok"
            /\ Snapshot = RunAlone(proc[p], proc[p].pre)
            /\ LeftBehind(p, Snapshot) = {}

\* A cascade operation or self-service deletion that ran alone and without
\* failure has left the store RunAlone computes.
RunAloneAgrees ==
    \A p \in Procs :
        (proc[p].op \in CascadeOps \cup {"delete_my_account"} /\ Done(p)
           /\ proc[p].result.kind = "ok" /\ ~proc[p].failed)
            => Snapshot = RunAlone(proc[p], proc[p].pre)

\* C34 (concurrent cascades are safe): when a cascade operation or
\* delete_my_account was invoked (slot 1) and invoked again for the same
\* account while the first invocation ran (slot 2), and both have
\* completed, whatever the interleaving of their store calls, both have
\* succeeded and the store is the one a single invocation leaves.
C34_ConcurrentCascades ==
    (/\ proc[1].op \in CascadeOps \cup {"delete_my_account"}
     /\ proc[2].op = proc[1].op /\ proc[2].acct = proc[1].acct
     /\ Done(1) /\ Done(2))
        => /\ proc[1].result.kind = "ok"
           /\ proc[2].result.kind = "ok"
           /\ Snapshot = RunAlone(proc[1], proc[1].pre)

\* The cascade function fn was the first call and has returned a count.
RanFirst(fn) ==
    proc[1].op = fn /\ Done(1) /\ proc[1].result.kind = "ok"

\* A later call of one of the functions fns for the account of the first
\* call has returned.
RanLater(fns) ==
    proc[2].op \in fns /\ Done(2) /\ proc[2].acct = proc[1].acct

\* The Campaigns of the account of the first call that were stored when it
\* started, and the Orders under them.
CampaignsAtStart ==
    {x \in proc[1].pre.campaigns :
       x.profileId \in OwnedPids(proc[1].pre.profiles, proc[1].acct)}
OrdersAtStart ==
    {x \in proc[1].pre.orders :
       x.campaignId \in {c.campaignId : c \in CampaignsAtStart}}

\* C36 (an out-of-order cascade orphans the children): once
\* admin_delete_user_profiles has run for an account, every later
\* admin_delete_user_campaigns or admin_delete_user_orders for it returns 0
\* and the account's Campaigns and Orders stay stored whatever cascade
\* function is called later; once admin_delete_user_campaigns has run, every
\* later admin_delete_user_orders returns 0 and the account's Orders stay
\* stored.
C36_OutOfOrderOrphans ==
    /\ RanFirst("admin_delete_user_profiles") =>
          /\ CampaignsAtStart \subseteq campaigns
          /\ OrdersAtStart \subseteq orders
          /\ RanLater({"admin_delete_user_campaigns", "admin_delete_user_orders"})
                => proc[2].result = OkCount(0)
    /\ RanFirst("admin_delete_user_campaigns") =>
          /\ OrdersAtStart \subseteq orders
          /\ RanLater({"admin_delete_user_orders"}) => proc[2].result = OkCount(0)
====
